---- MODULE Spec2Model ----
(***************************************************************************)
(* Two parts of the chest-of-drawers planner.                              *)
(*                                                                         *)
(* Spec: guillotine bin packing of cut pieces onto stock sheets            *)
(* (packPieces and its helpers).  Lengths are exact integers in an         *)
(* arbitrary unit: the code is unit-agnostic, so a length of 1 stands for  *)
(* one kerf-sized increment (1/8 inch in the kerf scenario).               *)
(*                                                                         *)
(* EngineSpec: the dimension engine (carcass and drawer-box sizing and     *)
(* their piece lists), run in the order of aggregateCutPieces.  Lengths    *)
(* are exact integers in units of 1/64 inch.                               *)
(*                                                                         *)
(* Floating-point rounding of the code's numbers is not modelled.          *)
(***************************************************************************)
EXTENDS Integers, Sequences, FiniteSets, TLC

\* ---------------------------------------------------------------- bounds
\* Piece sides are 1..MaxDim, quantities 1..MaxQty, at most MaxPieces cut
\* pieces per call; sheet sides are 1..MaxSheet; the kerf is 0 or MaxKerf.
\* The inputs of the repository's packPieces tests are added to these.
MaxDim == 2
MaxSheet == 3
MaxQty == 2
MaxPieces == 1
MaxKerf == 1

\* At most MaxCols columns of at most MaxRows rows in a chest configuration.
MaxCols == 2
MaxRows == 2

VARIABLES pieces, sheet, kerfWidth, allowRotation,
          pc, unplaced, idx, freeRects, placements, remaining,
          layouts, passes, steps,
          config, epc, carcass, allPieces, merged, boxes, colIdx, rowIdx,
          gridIn, gridOut, gpc,
          fitIn, fitOut, fpc,
          jigIn, jpc, safeRanges, cuts, cursor, segments,
          store, lastOp, before, ops, imported

packVars == <<pieces, sheet, kerfWidth, allowRotation,
              pc, unplaced, idx, freeRects, placements, remaining,
              layouts, passes, steps>>

engineVars ==
  <<config, epc, carcass, allPieces, merged, boxes, colIdx, rowIdx>>

gridVars == <<gridIn, gridOut, gpc>>

fitVars == <<fitIn, fitOut, fpc>>

jigVars == <<jigIn, jpc, safeRanges, cuts, cursor, segments>>

storeVars == <<store, lastOp, before, ops, imported>>

vars == <<packVars, engineVars, gridVars, fitVars, jigVars, storeVars>>

\* What each part leaves alone.
nonPackVars == <<engineVars, gridVars, fitVars, jigVars, storeVars>>

nonEngineVars == <<packVars, gridVars, fitVars, jigVars, storeVars>>

nonGridVars == <<packVars, engineVars, fitVars, jigVars, storeVars>>

nonFitVars == <<packVars, engineVars, gridVars, jigVars, storeVars>>

nonJigVars == <<packVars, engineVars, gridVars, fitVars, storeVars>>

nonStoreVars == <<packVars, engineVars, gridVars, fitVars, jigVars>>

\* The gridfinity reverse calculation before it is given a request.
GridIdle ==
  /\ gridIn = <<>>
  /\ gridOut = <<>>
  /\ gpc = "idle"

\* findBestFit and guillotineSplit before they are given a piece.
FitIdle ==
  /\ fitIn = <<>>
  /\ fitOut = <<>>
  /\ fpc = "idle"

\* computeJigPanelSegments before it is given a panel.
JigIdle ==
  /\ jigIn = <<>>
  /\ jpc = "idle"
  /\ safeRanges = <<>>
  /\ cuts = <<>>
  /\ cursor = 0
  /\ segments = <<>>

\* The store before it is created.
StoreIdle ==
  /\ store = <<>>
  /\ lastOp = <<>>
  /\ before = <<>>
  /\ ops = 0
  /\ imported = FALSE

\* The dimension engine before any configuration is handed to it.
NoCarcass ==
  [outerWidth |-> 0, outerHeight |-> 0, outerDepth |-> 0,
   innerWidth |-> 0, innerDepth |-> 0, constraintViolations |-> <<>>]

EngineIdle ==
  /\ config = [columns |-> <<>>]
  /\ epc = "idle"
  /\ carcass = NoCarcass
  /\ allPieces = <<>>
  /\ merged = <<>>
  /\ boxes = <<>>
  /\ colIdx = 0
  /\ rowIdx = 0

\* Everything but the packer, and everything but the engine, at rest.
NonPackIdle == EngineIdle /\ GridIdle /\ FitIdle /\ JigIdle /\ StoreIdle

inputs == <<pieces, sheet, kerfWidth, allowRotation>>

\* ------------------------------------------------------------- helpers
Max(a, b) == IF a >= b THEN a ELSE b

\* "no fit": findBestFit's null.  Rectangle indices are 1-based here.
Null == [rectIndex |-> 0, rotated |-> FALSE, leftover |-> 0]

RECURSIVE FindBestFitFrom(_, _, _, _, _, _)
FindBestFitFrom(i, best, pieceW, pieceH, freeRects_, allowRotation_) ==
  IF i > Len(freeRects_) THEN best
  ELSE
    LET rect == freeRects_[i]
        leftover == rect.width * rect.height - pieceW * pieceH
        b1 == IF pieceW <= rect.width /\ pieceH <= rect.height
                 /\ (best = Null \/ leftover < best.leftover)
              THEN [rectIndex |-> i, rotated |-> FALSE, leftover |-> leftover]
              ELSE best
        b2 == IF allowRotation_ /\ pieceH <= rect.width /\ pieceW <= rect.height
                 /\ (b1 = Null \/ leftover < b1.leftover)
              THEN [rectIndex |-> i, rotated |-> TRUE, leftover |-> leftover]
              ELSE b1
    IN FindBestFitFrom(i + 1, b2, pieceW, pieceH, freeRects_, allowRotation_)

\* Mutant: the allowRotation flag is not consulted.
FindBestFit_AlwaysRotateMut(pieceW, pieceH, kerf, freeRects_, allowRotation_) ==
  FindBestFitFrom(1, Null, pieceW, pieceH, freeRects_, TRUE)

\* Mutant: with rotation allowed only the rotated orientation is tried.
FindBestFit_RotatedOnlyMut(pieceW, pieceH, kerf, freeRects_, allowRotation_) ==
  IF allowRotation_
  THEN LET f == FindBestFitFrom(1, Null, pieceH, pieceW, freeRects_, FALSE)
       IN IF f = Null THEN Null ELSE [f EXCEPT !.rotated = TRUE]
  ELSE FindBestFitFrom(1, Null, pieceW, pieceH, freeRects_, FALSE)

\* Mutant: a candidate of equal leftover replaces the one found before it.
RECURSIVE FindBestFitFrom_TieLastMut(_, _, _, _, _, _)
FindBestFitFrom_TieLastMut(i, best, pieceW, pieceH, freeRects_, allowRotation_) ==
  IF i > Len(freeRects_) THEN best
  ELSE
    LET rect == freeRects_[i]
        leftover == rect.width * rect.height - pieceW * pieceH
        b1 == IF pieceW <= rect.width /\ pieceH <= rect.height
                 /\ (best = Null \/ leftover <= best.leftover)
              THEN [rectIndex |-> i, rotated |-> FALSE, leftover |-> leftover]
              ELSE best
        b2 == IF allowRotation_ /\ pieceH <= rect.width /\ pieceW <= rect.height
                 /\ (b1 = Null \/ leftover <= b1.leftover)
              THEN [rectIndex |-> i, rotated |-> TRUE, leftover |-> leftover]
              ELSE b1
    IN FindBestFitFrom_TieLastMut(i + 1, b2, pieceW, pieceH, freeRects_,
                                  allowRotation_)

FindBestFit_TieLastMut(pieceW, pieceH, kerf, freeRects_, allowRotation_) ==
  FindBestFitFrom_TieLastMut(1, Null, pieceW, pieceH, freeRects_, allowRotation_)

FindBestFit(pieceW, pieceH, kerf, freeRects_, allowRotation_) ==
  FindBestFitFrom(1, Null, pieceW, pieceH, freeRects_, allowRotation_)

Rect(x, y, w, h) == [x |-> x, y |-> y, width |-> w, height |-> h]

\* Mutant: in the horizontal split the right remainder spans the whole
\* rectangle height, so the two remainders overlap.
GuillotineSplit_OverlapMut(rect, placedW, placedH, kerf) ==
  LET rightW == rect.width - placedW - kerf
      bottomH == rect.height - placedH - kerf
  IN IF rightW <= 0 /\ bottomH <= 0 THEN <<>>
     ELSE IF rightW <= 0
       THEN <<Rect(rect.x, rect.y + placedH + kerf, rect.width, bottomH)>>
     ELSE IF bottomH <= 0
       THEN <<Rect(rect.x + placedW + kerf, rect.y, rightW, rect.height)>>
     ELSE <<Rect(rect.x, rect.y + placedH + kerf, rect.width, bottomH),
            Rect(rect.x + placedW + kerf, rect.y, rightW, rect.height)>>

\* Mutant: the remainders are sized with the kerf but start right at the
\* placed piece's edge.
GuillotineSplit_NoKerfOffsetMut(rect, placedW, placedH, kerf) ==
  LET rightW == rect.width - placedW - kerf
      bottomH == rect.height - placedH - kerf
      horizontalSplitLarger == Max(rect.width * bottomH, rightW * placedH)
      verticalSplitLarger == Max(rightW * rect.height, placedW * bottomH)
  IN IF rightW <= 0 /\ bottomH <= 0 THEN <<>>
     ELSE IF rightW <= 0
       THEN <<Rect(rect.x, rect.y + placedH, rect.width, bottomH)>>
     ELSE IF bottomH <= 0
       THEN <<Rect(rect.x + placedW, rect.y, rightW, rect.height)>>
     ELSE IF horizontalSplitLarger >= verticalSplitLarger
       THEN <<Rect(rect.x, rect.y + placedH, rect.width, bottomH),
              Rect(rect.x + placedW, rect.y, rightW, placedH)>>
     ELSE <<Rect(rect.x + placedW, rect.y, rightW, rect.height),
            Rect(rect.x, rect.y + placedH, placedW, bottomH)>>

\* result.filter((r) => r.width > 0 && r.height > 0)
PositiveRects(rs) == SelectSeq(rs, LAMBDA r : r.width > 0 /\ r.height > 0)

\* Mutant: of the two splits the one whose larger remainder is smaller.
GuillotineSplit_SmallerLargestMut(rect, placedW, placedH, kerf) ==
  LET rightW == rect.width - placedW - kerf
      bottomH == rect.height - placedH - kerf
      horizontalSplitLarger == Max(rect.width * bottomH, rightW * placedH)
      verticalSplitLarger == Max(rightW * rect.height, placedW * bottomH)
  IN IF rightW <= 0 /\ bottomH <= 0 THEN <<>>
     ELSE IF rightW <= 0
       THEN <<Rect(rect.x, rect.y + placedH + kerf, rect.width, bottomH)>>
     ELSE IF bottomH <= 0
       THEN <<Rect(rect.x + placedW + kerf, rect.y, rightW, rect.height)>>
     ELSE IF horizontalSplitLarger <= verticalSplitLarger
       THEN PositiveRects(
              <<Rect(rect.x, rect.y + placedH + kerf, rect.width, bottomH),
                Rect(rect.x + placedW + kerf, rect.y, rightW, placedH)>>)
     ELSE PositiveRects(
            <<Rect(rect.x + placedW + kerf, rect.y, rightW, rect.height),
              Rect(rect.x, rect.y + placedH + kerf, placedW, bottomH)>>)

GuillotineSplit(rect, placedW, placedH, kerf) ==
  LET rightW == rect.width - placedW - kerf
      bottomH == rect.height - placedH - kerf
      horizontalSplitLarger == Max(rect.width * bottomH, rightW * placedH)
      verticalSplitLarger == Max(rightW * rect.height, placedW * bottomH)
  IN IF rightW <= 0 /\ bottomH <= 0 THEN <<>>
     ELSE IF rightW <= 0
       THEN <<Rect(rect.x, rect.y + placedH + kerf, rect.width, bottomH)>>
     ELSE IF bottomH <= 0
       THEN <<Rect(rect.x + placedW + kerf, rect.y, rightW, rect.height)>>
     ELSE IF horizontalSplitLarger >= verticalSplitLarger
       THEN PositiveRects(
              <<Rect(rect.x, rect.y + placedH + kerf, rect.width, bottomH),
                Rect(rect.x + placedW + kerf, rect.y, rightW, placedH)>>)
     ELSE PositiveRects(
            <<Rect(rect.x + placedW + kerf, rect.y, rightW, rect.height),
              Rect(rect.x, rect.y + placedH + kerf, placedW, bottomH)>>)

\* One unit instance per unit of quantity, in input order.
RECURSIVE Repeat(_, _)
Repeat(e, n) == IF n <= 0 THEN <<>> ELSE <<e>> \o Repeat(e, n - 1)

RECURSIVE ExpandPieces(_)
ExpandPieces(ps) ==
  IF ps = <<>> THEN <<>>
  ELSE Repeat([piece |-> Head(ps), width |-> Head(ps).width,
               height |-> Head(ps).height], Head(ps).quantity)
       \o ExpandPieces(Tail(ps))

\* expanded.sort((a, b) => b.area - a.area): stable, largest area first.
RECURSIVE InsertByArea(_, _)
InsertByArea(sorted, e) ==
  IF sorted = <<>> THEN <<e>>
  ELSE IF Head(sorted).width * Head(sorted).height >= e.width * e.height
    THEN <<Head(sorted)>> \o InsertByArea(Tail(sorted), e)
    ELSE <<e>> \o sorted

RECURSIVE SortByAreaDesc(_)
SortByAreaDesc(s) ==
  IF s = <<>> THEN <<>>
  ELSE InsertByArea(SortByAreaDesc(SubSeq(s, 1, Len(s) - 1)), s[Len(s)])

Splice(s, i, new) == SubSeq(s, 1, i - 1) \o new \o SubSeq(s, i + 1, Len(s))

\* Mutant: the chosen free rectangle stays in the list next to its remainders.
FillStep_KeepRectMut(st, item, sheet_, kerf, rot) ==
  LET fit == FindBestFit(item.width, item.height, kerf, st.freeRects, rot)
  IN IF fit = Null
     THEN [st EXCEPT !.remaining = Append(@, item)]
     ELSE
       LET rect == st.freeRects[fit.rectIndex]
           placedW == IF fit.rotated THEN item.height ELSE item.width
           placedH == IF fit.rotated THEN item.width ELSE item.height
       IN [st EXCEPT
             !.placements = Append(@, [piece |-> item.piece, x |-> rect.x,
                                       y |-> rect.y, rotated |-> fit.rotated]),
             !.freeRects = st.freeRects
                             \o GuillotineSplit(rect, placedW, placedH, kerf)]

\* Mutant: an instance that finds no free rectangle is dropped.
FillStep_DropDeferredMut(st, item, sheet_, kerf, rot) ==
  LET fit == FindBestFit(item.width, item.height, kerf, st.freeRects, rot)
  IN IF fit = Null
     THEN st
     ELSE
       LET rect == st.freeRects[fit.rectIndex]
           placedW == IF fit.rotated THEN item.height ELSE item.width
           placedH == IF fit.rotated THEN item.width ELSE item.height
       IN [st EXCEPT
             !.placements = Append(@, [piece |-> item.piece, x |-> rect.x,
                                       y |-> rect.y, rotated |-> fit.rotated]),
             !.freeRects = Splice(@, fit.rectIndex,
                                  GuillotineSplit(rect, placedW, placedH, kerf))]

\* One iteration of fillSheet's for loop over a record of its three locals.
\* (The guard "if (!rect) continue" never fires: fit.rectIndex is an index of
\* freeRects.)
FillStep(st, item, sheet_, kerf, rot) ==
  LET fit == FindBestFit(item.width, item.height, kerf, st.freeRects, rot)
  IN IF fit = Null
     THEN [st EXCEPT !.remaining = Append(@, item)]
     ELSE
       LET rect == st.freeRects[fit.rectIndex]
           placedW == IF fit.rotated THEN item.height ELSE item.width
           placedH == IF fit.rotated THEN item.width ELSE item.height
       IN [st EXCEPT
             !.placements = Append(@, [piece |-> item.piece, x |-> rect.x,
                                       y |-> rect.y, rotated |-> fit.rotated]),
             !.freeRects = Splice(@, fit.rectIndex,
                                  GuillotineSplit(rect, placedW, placedH, kerf))]

FillStart(sheet_) ==
  [freeRects |-> <<Rect(0, 0, sheet_.width, sheet_.height)>>,
   placements |-> <<>>, remaining |-> <<>>]

RECURSIVE FillFrom(_, _, _, _, _, _)
FillFrom(st, items, i, sheet_, kerf, rot) ==
  IF i > Len(items) THEN st
  ELSE FillFrom(FillStep(st, items[i], sheet_, kerf, rot),
                items, i + 1, sheet_, kerf, rot)

FillSheet(items, sheet_, kerf, rot) ==
  FillFrom(FillStart(sheet_), items, 1, sheet_, kerf, rot)

PlacedW(p) == IF p.rotated THEN p.piece.height ELSE p.piece.width
PlacedH(p) == IF p.rotated THEN p.piece.width ELSE p.piece.height

RECURSIVE UsedArea(_)
UsedArea(ps) ==
  IF ps = <<>> THEN 0
  ELSE UsedArea(SubSeq(ps, 1, Len(ps) - 1))
       + PlacedW(ps[Len(ps)]) * PlacedH(ps[Len(ps)])

\* wastePercentage is kept exact, as the fraction num / den.
Percent(n, d) == [num |-> n * 100, den |-> d]

\* Mutant: the used share is reported in place of the wasted share.
BuildLayout_UsedShareMut(sheet_, placements_) ==
  LET totalArea == sheet_.width * sheet_.height
      usedArea == UsedArea(placements_)
  IN [sheet |-> sheet_, placements |-> placements_,
      wastePercentage |-> Percent(usedArea, totalArea),
      usedArea |-> usedArea, totalArea |-> totalArea]

BuildLayout(sheet_, placements_) ==
  LET totalArea == sheet_.width * sheet_.height
      usedArea == UsedArea(placements_)
  IN [sheet |-> sheet_, placements |-> placements_,
      wastePercentage |-> Percent(totalArea - usedArea, totalArea),
      usedArea |-> usedArea, totalArea |-> totalArea]

\* packPieces' while loop as a function of the unplaced list.
RECURSIVE PackLoop(_, _, _, _, _)
PackLoop(unplaced_, layouts_, sheet_, kerf, rot) ==
  IF Len(unplaced_) = 0 THEN layouts_
  ELSE
    LET r == FillSheet(unplaced_, sheet_, kerf, rot)
    IN IF Len(r.placements) = 0 THEN layouts_
       ELSE IF Len(r.remaining) = Len(unplaced_)
         THEN Append(layouts_, BuildLayout(sheet_, r.placements))
       ELSE PackLoop(r.remaining,
                     Append(layouts_, BuildLayout(sheet_, r.placements)),
                     sheet_, kerf, rot)

PackPieces(pieces_, sheet_, kerf, rot) ==
  PackLoop(SortByAreaDesc(ExpandPieces(pieces_)), <<>>, sheet_, kerf, rot)

\* ---------------------------------------------------------------- inputs
CutPiece(i, w, h, q) == [id |-> i, width |-> w, height |-> h, quantity |-> q]

Shapes == [width : 1..MaxDim, height : 1..MaxDim, quantity : 1..MaxQty]

Sheets == [width : 1..MaxSheet, height : 1..MaxSheet]

\* The inputs of the spec's scenarios and of the packPieces tests, in units
\* of 1/8 inch (the tests' kerf of 0.125 is 1).
Sheet48x96 == [width |-> 384, height |-> 768]
Sheet48x48 == [width |-> 384, height |-> 384]
Sheet48x20 == [width |-> 384, height |-> 160]
TwoHalves == <<CutPiece(1, 192, 376, 2)>>
FullSheetPiece == <<CutPiece(1, 384, 768, 1)>>
QuarterSheetPiece == <<CutPiece(1, 192, 384, 1)>>
MixedPieces ==
  <<CutPiece(1, 160, 160, 1), CutPiece(2, 80, 80, 1), CutPiece(3, 80, 80, 1)>>
PanelPieces == <<CutPiece(1, 160, 240, 3), CutPiece(2, 120, 200, 2)>>
WideAndTall == <<CutPiece(1, 320, 80, 1), CutPiece(2, 80, 320, 1)>>

ScenarioInit ==
  \/ /\ pieces = TwoHalves
     /\ sheet = Sheet48x48
     /\ kerfWidth \in {0, 1}
     /\ allowRotation = TRUE
  \/ /\ pieces \in {FullSheetPiece, QuarterSheetPiece}
     /\ sheet = Sheet48x96
     /\ kerfWidth = 0
     /\ allowRotation = TRUE
  \/ /\ pieces \in {MixedPieces, PanelPieces}
     /\ sheet = Sheet48x96
     /\ kerfWidth \in {0, 1}
     /\ allowRotation \in BOOLEAN
  \/ /\ pieces = WideAndTall
     /\ sheet = Sheet48x20
     /\ kerfWidth = 0
     /\ allowRotation \in BOOLEAN

BoundedInit ==
  /\ \E n \in 0..MaxPieces :
       \E f \in [1..n -> Shapes] :
         pieces = [i \in 1..n |->
                     CutPiece(i, f[i].width, f[i].height, f[i].quantity)]
  /\ sheet \in Sheets
  /\ kerfWidth \in {0, MaxKerf}
  /\ allowRotation \in BOOLEAN

Init ==
  /\ BoundedInit \/ ScenarioInit
  /\ pc = "start"
  /\ unplaced = <<>>
  /\ idx = 0
  /\ freeRects = <<>>
  /\ placements = <<>>
  /\ remaining = <<>>
  /\ layouts = <<>>
  /\ passes = 0
  /\ steps = 0
  /\ NonPackIdle

\* --------------------------------------------------------------- actions
\* passes counts the calls of fillSheet and steps the steps taken so far.
NumInstances == Len(ExpandPieces(pieces))

PassCap == MaxPieces * MaxQty + 6

\* packPieces entry: expand, sort, copy into unplaced.
Start ==
  /\ pc = "start"
  /\ unplaced' = SortByAreaDesc(ExpandPieces(pieces))
  /\ pc' = "while"
  /\ steps' = steps + 1
  /\ UNCHANGED <<nonPackVars, inputs, idx, freeRects, placements, remaining, layouts, passes>>

\* while (unplaced.length > 0): leave the loop, or enter fillSheet.
BeginPass ==
  /\ pc = "while"
  /\ passes < PassCap
  /\ IF Len(unplaced) = 0
     THEN /\ pc' = "done"
          /\ UNCHANGED <<idx, freeRects, placements, remaining, passes>>
     ELSE /\ pc' = "fill"
          /\ idx' = 1
          /\ freeRects' = FillStart(sheet).freeRects
          /\ placements' = <<>>
          /\ remaining' = <<>>
          /\ passes' = passes + 1
  /\ steps' = steps + 1
  /\ UNCHANGED <<nonPackVars, inputs, unplaced, layouts>>

\* One iteration of fillSheet's loop: place the item or defer it.
FillItem ==
  /\ pc = "fill"
  /\ idx <= Len(unplaced)
  /\ LET st == FillStep([freeRects |-> freeRects, placements |-> placements,
                         remaining |-> remaining],
                        unplaced[idx], sheet, kerfWidth, allowRotation)
     IN /\ freeRects' = st.freeRects
        /\ placements' = st.placements
        /\ remaining' = st.remaining
  /\ idx' = idx + 1
  /\ steps' = steps + 1
  /\ UNCHANGED <<nonPackVars, inputs, pc, unplaced, layouts, passes>>

\* Mutant: the layout is recorded before the empty-pass test.
EndPass_PushFirstMut ==
  /\ pc = "fill"
  /\ idx > Len(unplaced)
  /\ layouts' = Append(layouts, BuildLayout(sheet, placements))
  /\ IF Len(placements) = 0 \/ Len(remaining) = Len(unplaced)
     THEN pc' = "done" /\ UNCHANGED unplaced
     ELSE pc' = "while" /\ unplaced' = remaining
  /\ steps' = steps + 1
  /\ UNCHANGED <<nonPackVars, inputs, idx, freeRects, placements, remaining, passes>>

\* Mutant: an empty pass does not end the loop.
EndPass_NoBreakMut ==
  /\ pc = "fill"
  /\ idx > Len(unplaced)
  /\ IF Len(placements) = 0
     THEN pc' = "while" /\ UNCHANGED <<layouts, unplaced>>
     ELSE /\ layouts' = Append(layouts, BuildLayout(sheet, placements))
          /\ pc' = "while" /\ unplaced' = remaining
  /\ steps' = steps + 1
  /\ UNCHANGED <<nonPackVars, inputs, idx, freeRects, placements, remaining, passes>>

\* fillSheet has returned: the rest of the while body.
EndPass ==
  /\ pc = "fill"
  /\ idx > Len(unplaced)
  /\ IF Len(placements) = 0
     THEN pc' = "done" /\ UNCHANGED <<layouts, unplaced>>
     ELSE /\ layouts' = Append(layouts, BuildLayout(sheet, placements))
          /\ IF Len(remaining) = Len(unplaced)
             THEN pc' = "done" /\ UNCHANGED unplaced
             ELSE pc' = "while" /\ unplaced' = remaining
  /\ steps' = steps + 1
  /\ UNCHANGED <<nonPackVars, inputs, idx, freeRects, placements, remaining, passes>>

Next == Start \/ BeginPass \/ FillItem \/ EndPass

Spec == Init /\ [][Next]_vars

\* The stepwise run returns what the function computes.
StepwiseAgrees ==
  pc = "done" => layouts = PackPieces(pieces, sheet, kerfWidth, allowRotation)

\* ---------------------------------------------------------------- claims
RECURSIVE SumSeq(_)
SumSeq(s) == IF s = <<>> THEN 0 ELSE Head(s) + SumSeq(Tail(s))

\* All pairs of distinct placements of every recorded layout.
PlacementPairs ==
  {<<l, i, j>> \in (DOMAIN layouts) \X (1..NumInstances) \X (1..NumInstances) :
     i < j /\ j <= Len(layouts[l].placements)}

Overlap(a, b) ==
  /\ a.x < b.x + PlacedW(b) /\ b.x < a.x + PlacedW(a)
  /\ a.y < b.y + PlacedH(b) /\ b.y < a.y + PlacedH(a)

Separated(a, b, k) ==
  \/ a.x + PlacedW(a) + k <= b.x
  \/ b.x + PlacedW(b) + k <= a.x
  \/ a.y + PlacedH(a) + k <= b.y
  \/ b.y + PlacedH(b) + k <= a.y

\* The piece fits the empty sheet in an orientation the flag rot allows.
FitsEmptySheet(p, rot) ==
  \/ p.width <= sheet.width /\ p.height <= sheet.height
  \/ rot /\ p.height <= sheet.width /\ p.width <= sheet.height

PlacedCount(ls, p) ==
  SumSeq([l \in DOMAIN ls |->
            Cardinality({j \in DOMAIN ls[l].placements :
                           ls[l].placements[j].piece = p})])

TotalPlaced(ls) == SumSeq([l \in DOMAIN ls |-> Len(ls[l].placements)])

FittingQuantity(rot) ==
  SumSeq([i \in DOMAIN pieces |->
            IF FitsEmptySheet(pieces[i], rot) THEN pieces[i].quantity ELSE 0])

\* C1: in every layout packPieces returns, the footprints [x, x+w) x [y, y+h)
\* of any two distinct placements (w and h swapped when rotated) are disjoint.
C1_NoOverlap ==
  pc = "done" =>
    \A t \in PlacementPairs :
      ~Overlap(layouts[t[1]].placements[t[2]], layouts[t[1]].placements[t[3]])

C1_Witness ==
  /\ pc = "done"
  /\ \E l \in DOMAIN layouts : Len(layouts[l].placements) >= 2

\* C2: every placement of every layout packPieces returns lies inside the
\* sheet, and a placement is rotated only when allowRotation is true.
C2_InBounds ==
  pc = "done" =>
    \A l \in DOMAIN layouts : \A j \in DOMAIN layouts[l].placements :
      LET p == layouts[l].placements[j]
      IN /\ p.x >= 0 /\ p.y >= 0
         /\ p.x + PlacedW(p) <= sheet.width
         /\ p.y + PlacedH(p) <= sheet.height
         /\ (p.rotated => allowRotation)

C2_Witness ==
  /\ pc = "done"
  /\ \E l \in DOMAIN layouts : \E i, j \in DOMAIN layouts[l].placements :
       /\ layouts[l].placements[i].rotated
       /\ layouts[l].placements[j].x + layouts[l].placements[j].y > 0

\* C3: when packPieces returns, every unit instance that fits an empty sheet
\* in an allowed orientation is in exactly one placement (a piece of quantity
\* q has q placements over all layouts), no other instance is placed, and the
\* placements number as many as the instances that fit.
C3_AllFittingPlaced ==
  pc = "done" =>
    /\ \A i \in DOMAIN pieces :
         PlacedCount(layouts, pieces[i]) =
           IF FitsEmptySheet(pieces[i], allowRotation)
           THEN pieces[i].quantity ELSE 0
    /\ TotalPlaced(layouts) = FittingQuantity(allowRotation)

C3_Witness ==
  /\ pc = "done"
  /\ Len(layouts) >= 2
  /\ \E i \in DOMAIN pieces : pieces[i].quantity >= 2
  /\ TotalPlaced(layouts) = NumInstances

\* C4: packPieces returns no layout with zero placements, and when every
\* input piece is larger than the sheet in every allowed orientation it
\* returns the empty list.
C4_NoEmptyLayout ==
  pc = "done" =>
    /\ \A l \in DOMAIN layouts : Len(layouts[l].placements) > 0
    /\ (FittingQuantity(allowRotation) = 0 => layouts = <<>>)

C4_Witness ==
  /\ pc = "done"
  /\ pieces # <<>>
  /\ FittingQuantity(allowRotation) = 0
  /\ layouts = <<>>

\* The input without the pieces that fit no empty sheet.
FittingPieces == SelectSeq(pieces, LAMBDA p : FitsEmptySheet(p, allowRotation))

\* C5: an instance left unplaced is reported to the caller in the returned
\* value; so the value returned for an input with an unplaceable piece must
\* differ from the value returned for the same input without that piece.
C5_UnplacedReported ==
  pc = "done" /\ FittingQuantity(allowRotation) < NumInstances =>
    layouts # PackPieces(FittingPieces, sheet, kerfWidth, allowRotation)

\* Steps packPieces still takes from the loop head with u unplaced instances
\* when every pass places a single instance: the bound on the remaining work.
PassWork(u) == (u * (u + 1)) \div 2 + 2 * u + 1

Rank ==
  CASE pc = "start" -> PassWork(NumInstances) + 1
    [] pc = "while" -> PassWork(Len(unplaced))
    [] pc = "fill" -> PassWork(Len(unplaced)) - idx
    [] pc = "done" -> 0

\* Some step is enabled: the guards of Start, BeginPass, FillItem and EndPass.
CanStep ==
  \/ pc = "start"
  \/ pc = "while" /\ passes < PassCap
  \/ pc = "fill"

\* C6: packPieces terminates: no state short of the return is stuck and the
\* steps taken plus a non-negative rank never exceed the initial rank; it
\* makes at most n + 1 passes over n unit instances, every pass that does not
\* end the loop shrinks the unplaced list, and a pass scans at most once per
\* instance a list of at most 2n + 1 free rectangles.
C6_Terminates ==
  /\ pc = "done" \/ CanStep
  /\ Rank >= 0
  /\ steps + Rank <= PassWork(NumInstances) + 1
  /\ passes <= NumInstances + 1
  /\ (pc = "while" => Len(unplaced) + passes <= NumInstances)
  /\ (pc = "fill" => idx <= Len(unplaced) + 1 /\ Len(unplaced) <= NumInstances)
  /\ Len(freeRects) <= 2 * NumInstances + 1

C6_Witness ==
  /\ pc = "done"
  /\ passes >= 2
  /\ passes = NumInstances
  /\ steps = PassWork(NumInstances) + 1

FreeArea(rs) == SumSeq([i \in DOMAIN rs |-> rs[i].width * rs[i].height])

\* C7 as claimed: for any kerf width, while a sheet is being filled and when
\* it is closed, usedArea plus the area of the free rectangles equals the
\* sheet area.
C7_ConservationAnyKerf ==
  pc = "fill" =>
    UsedArea(placements) + FreeArea(freeRects) = sheet.width * sheet.height

\* C7 amended: usedArea plus the free area never exceeds the sheet area, and
\* equals it when the kerf width is 0.
C7_Conservation ==
  pc = "fill" =>
    /\ UsedArea(placements) + FreeArea(freeRects) <= sheet.width * sheet.height
    /\ (kerfWidth = 0 =>
          UsedArea(placements) + FreeArea(freeRects)
            = sheet.width * sheet.height)

C7_Witness ==
  /\ pc = "fill"
  /\ kerfWidth = 0
  /\ Len(placements) >= 2
  /\ Len(freeRects) >= 1

\* C8: any two placements of one returned layout are at least the kerf width
\* apart along x or along y; two 24x47 pieces share a 48x48 sheet at kerf 0
\* and take two sheets at kerf 1/8.
C8_KerfGap ==
  pc = "done" =>
    /\ \A t \in PlacementPairs :
         Separated(layouts[t[1]].placements[t[2]],
                   layouts[t[1]].placements[t[3]], kerfWidth)
    /\ (pieces = TwoHalves /\ sheet = Sheet48x48 =>
          Len(layouts) = IF kerfWidth = 0 THEN 1 ELSE 2)

C8_Witness ==
  /\ pc = "done"
  /\ kerfWidth >= 1
  /\ pieces # TwoHalves
  /\ \E l \in DOMAIN layouts : Len(layouts[l].placements) >= 2

\* C9: every returned layout has totalArea = sheet width x height, usedArea = the sum
\* of width x height over its placements, wastePercentage =
\* (totalArea - usedArea) / totalArea x 100, and 0 <= wastePercentage < 100;
\* a full-sheet piece gives 0 and a quarter-sheet piece gives 75.
C9_LayoutStats ==
  pc = "done" =>
  /\ \A l \in DOMAIN layouts :
       LET lay == layouts[l]
           total == sheet.width * sheet.height
           used == SumSeq([j \in DOMAIN lay.placements |->
                             lay.placements[j].piece.width
                               * lay.placements[j].piece.height])
           waste == lay.wastePercentage
       IN /\ lay.totalArea = total
          /\ lay.usedArea = used
          /\ waste.den = total
          /\ waste.num = (total - used) * 100
          /\ 0 <= waste.num
          /\ waste.num < 100 * waste.den
  /\ (pieces = FullSheetPiece /\ sheet = Sheet48x96 =>
        Len(layouts) = 1 /\ layouts[1].wastePercentage.num = 0)
  /\ (pieces = QuarterSheetPiece /\ sheet = Sheet48x96 =>
        /\ Len(layouts) = 1
        /\ layouts[1].wastePercentage.num
             = 75 * layouts[1].wastePercentage.den)

C9_Witness ==
  /\ pc = "done"
  /\ pieces = QuarterSheetPiece
  /\ Len(layouts) = 1
  /\ layouts[1].usedArea * 4 = layouts[1].totalArea

\* C10 as claimed: packPieces returns no more layouts with rotation allowed
\* than without it on the same pieces, sheet and kerf.
C10_RotationNeverCostsSheets ==
  pc = "done" =>
    Len(PackPieces(pieces, sheet, kerfWidth, TRUE))
      <= Len(PackPieces(pieces, sheet, kerfWidth, FALSE))

\* C10 amended: packPieces places no fewer unit instances with rotation
\* allowed than without it on the same pieces, sheet and kerf.
C10_RotationNeverLosesPieces ==
  pc = "done" =>
    TotalPlaced(PackPieces(pieces, sheet, kerfWidth, TRUE))
      >= TotalPlaced(PackPieces(pieces, sheet, kerfWidth, FALSE))

C10_Witness ==
  /\ pc = "done"
  /\ allowRotation
  /\ Len(layouts) >= 1
  /\ TotalPlaced(layouts)
       > TotalPlaced(PackPieces(pieces, sheet, kerfWidth, FALSE))

\* ======================================================= dimension engine
\* Lengths below are in units of 1/64 inch, so 64 is one inch and 8 is one
\* eighth.  An optional value (constraints, woodOverride and its fields) is
\* the empty sequence when undefined and a one-element sequence otherwise.

\* A WoodThickness: its identity and its actual machined thickness.
Wood(id, actual) == [id |-> id, actual |-> actual]

\* Entries of WOOD_THICKNESSES whose thickness is a whole number of 1/64 inch.
Ply14 == Wood("ply-1/4", 16)
Ply12 == Wood("ply-1/2", 30)
Ply34 == Wood("ply-3/4", 46)
Hw12 == Wood("hw-1/2", 32)
Hw34 == Wood("hw-3/4", 48)
Hw1 == Wood("hw-1", 68)
Mdf14 == Wood("mdf-1/4", 16)

Dims(w, h, d) == [width |-> w, height |-> h, depth |-> d]

RECURSIVE SumOf(_)
SumOf(s) == IF Len(s) = 0 THEN 0 ELSE Head(s) + SumOf(Tail(s))

\* Math.max(...s) of a non-empty list.
RECURSIVE MaxOf(_)
MaxOf(s) == IF Len(s) = 1 THEN s[1] ELSE Max(s[1], MaxOf(Tail(s)))

\* ----------------------------------------------------------------- carcass
GetColumnInnerHeight(column, config_) ==
  LET totalRowHeight ==
        SumOf([j \in DOMAIN column.rows |-> column.rows[j].openingHeight])
  IN IF ~config_.horizontalRails.enabled \/ Len(column.rows) <= 1
       THEN totalRowHeight
       ELSE totalRowHeight
              + (Len(column.rows) - 1) * config_.horizontalRails.thickness.actual

\* Mutant: the comparison admits equality.
CheckConstraintViolations_AtLeastMut(outer, constraints) ==
  IF constraints = <<>> THEN <<>>
  ELSE
    LET max == constraints[1]
        Check(dim) ==
          IF outer[dim] >= max[dim]
            THEN <<[dimension |-> dim, actual |-> outer[dim], max |-> max[dim]]>>
            ELSE <<>>
    IN Check("width") \o Check("height") \o Check("depth")

CheckConstraintViolations(outer, constraints) ==
  IF constraints = <<>> THEN <<>>
  ELSE
    LET max == constraints[1]
        Check(dim) ==
          IF outer[dim] > max[dim]
            THEN <<[dimension |-> dim, actual |-> outer[dim], max |-> max[dim]]>>
            ELSE <<>>
    IN Check("width") \o Check("height") \o Check("depth")

\* Mutant: the carcass height is that of the first column.
CalculateCarcassDimensions_FirstColumnMut(config_) ==
  LET wood == config_.woodAssignments
      columns == config_.columns
      innerWidth ==
        SumOf([i \in DOMAIN columns |-> columns[i].openingWidth])
          + (Len(columns) - 1) * wood.carcassDividers.actual
      outerWidth == wood.carcassSides.actual + innerWidth + wood.carcassSides.actual
      outerHeight ==
        wood.carcassTopBottom.actual + GetColumnInnerHeight(columns[1], config_)
          + wood.carcassTopBottom.actual
      innerDepth == config_.slideSpec.length + config_.drawerBackClearance
      outerDepth == innerDepth + wood.carcassBack.actual
  IN [outerWidth |-> outerWidth, outerHeight |-> outerHeight,
      outerDepth |-> outerDepth, innerWidth |-> innerWidth,
      innerDepth |-> innerDepth,
      constraintViolations |->
        CheckConstraintViolations(Dims(outerWidth, outerHeight, outerDepth),
                                  config_.constraints)]

\* Mutant: the sides are taken off the inner width instead of added.
CalculateCarcassDimensions_InsideSidesMut(config_) ==
  LET wood == config_.woodAssignments
      columns == config_.columns
      innerWidth ==
        SumOf([i \in DOMAIN columns |-> columns[i].openingWidth])
          + (Len(columns) - 1) * wood.carcassDividers.actual
      outerWidth == innerWidth - wood.carcassSides.actual - wood.carcassSides.actual
      carcassInnerHeight ==
        MaxOf([i \in DOMAIN columns |-> GetColumnInnerHeight(columns[i], config_)])
      outerHeight ==
        wood.carcassTopBottom.actual + carcassInnerHeight
          + wood.carcassTopBottom.actual
      innerDepth == config_.slideSpec.length + config_.drawerBackClearance
      outerDepth == innerDepth + wood.carcassBack.actual
  IN [outerWidth |-> outerWidth, outerHeight |-> outerHeight,
      outerDepth |-> outerDepth, innerWidth |-> innerWidth,
      innerDepth |-> innerDepth,
      constraintViolations |->
        CheckConstraintViolations(Dims(outerWidth, outerHeight, outerDepth),
                                  config_.constraints)]

CalculateCarcassDimensions(config_) ==
  LET wood == config_.woodAssignments
      columns == config_.columns
      sideThickness == wood.carcassSides.actual
      topBottomThickness == wood.carcassTopBottom.actual
      dividerThickness == wood.carcassDividers.actual
      backThickness == wood.carcassBack.actual
      totalOpeningWidths ==
        SumOf([i \in DOMAIN columns |-> columns[i].openingWidth])
      dividerCount == Len(columns) - 1
      innerWidth == totalOpeningWidths + dividerCount * dividerThickness
      outerWidth == sideThickness + innerWidth + sideThickness
      carcassInnerHeight ==
        MaxOf([i \in DOMAIN columns |-> GetColumnInnerHeight(columns[i], config_)])
      outerHeight == topBottomThickness + carcassInnerHeight + topBottomThickness
      innerDepth == config_.slideSpec.length + config_.drawerBackClearance
      outerDepth == innerDepth + backThickness
  IN [outerWidth |-> outerWidth, outerHeight |-> outerHeight,
      outerDepth |-> outerDepth, innerWidth |-> innerWidth,
      innerDepth |-> innerDepth,
      constraintViolations |->
        CheckConstraintViolations(Dims(outerWidth, outerHeight, outerDepth),
                                  config_.constraints)]

\* A cut piece of the engine.  Its id is kept in parts (the kind of panel and
\* the column and row it belongs to, 0 when none); display labels are left out.
MakePiece(kind, col, row, w, h, thickness, q) ==
  [id |-> [kind |-> kind, col |-> col, row |-> row],
   width |-> w, height |-> h, thickness |-> thickness, quantity |-> q]

\* The rail entries of columns i..Len(columns), in column order.
RECURSIVE RailPieces(_, _)
RailPieces(config_, i) ==
  IF i > Len(config_.columns) THEN <<>>
  ELSE
    LET col == config_.columns[i]
        colRailCount == Max(0, Len(col.rows) - 1)
    IN (IF colRailCount > 0
          THEN <<MakePiece("horizontal-rails-col", i - 1, 0, col.openingWidth,
                           config_.horizontalRails.width,
                           config_.horizontalRails.thickness, colRailCount)>>
          ELSE <<>>)
       \o RailPieces(config_, i + 1)

\* Mutant: one rail per row instead of one per gap between rows.
GetCarcassPieces_RailPerRowMut(config_, carcass_) ==
  LET wood == config_.woodAssignments
      verticalPanelHeight ==
        carcass_.outerHeight - wood.carcassTopBottom.actual * 2
      dividerCount == Len(config_.columns) - 1
  IN <<MakePiece("carcass-top", 0, 0, carcass_.innerWidth, carcass_.innerDepth,
                 wood.carcassTopBottom, 1),
       MakePiece("carcass-bottom", 0, 0, carcass_.innerWidth,
                 carcass_.innerDepth, wood.carcassTopBottom, 1),
       MakePiece("carcass-sides", 0, 0, carcass_.innerDepth,
                 verticalPanelHeight, wood.carcassSides, 2)>>
     \o (IF dividerCount > 0
           THEN <<MakePiece("carcass-dividers", 0, 0, carcass_.innerDepth,
                            verticalPanelHeight, wood.carcassDividers,
                            dividerCount)>>
           ELSE <<>>)
     \o <<MakePiece("carcass-back", 0, 0, carcass_.outerWidth,
                    carcass_.outerHeight, wood.carcassBack, 1)>>
     \o (IF config_.horizontalRails.enabled
           THEN [i \in DOMAIN config_.columns |->
                   MakePiece("horizontal-rails-col", i - 1, 0,
                             config_.columns[i].openingWidth,
                             config_.horizontalRails.width,
                             config_.horizontalRails.thickness,
                             Len(config_.columns[i].rows))]
           ELSE <<>>)

GetCarcassPieces(config_, carcass_) ==
  LET wood == config_.woodAssignments
      verticalPanelHeight ==
        carcass_.outerHeight - wood.carcassTopBottom.actual * 2
      dividerCount == Len(config_.columns) - 1
  IN <<MakePiece("carcass-top", 0, 0, carcass_.innerWidth, carcass_.innerDepth,
                 wood.carcassTopBottom, 1),
       MakePiece("carcass-bottom", 0, 0, carcass_.innerWidth,
                 carcass_.innerDepth, wood.carcassTopBottom, 1),
       MakePiece("carcass-sides", 0, 0, carcass_.innerDepth,
                 verticalPanelHeight, wood.carcassSides, 2)>>
     \o (IF dividerCount > 0
           THEN <<MakePiece("carcass-dividers", 0, 0, carcass_.innerDepth,
                            verticalPanelHeight, wood.carcassDividers,
                            dividerCount)>>
           ELSE <<>>)
     \o <<MakePiece("carcass-back", 0, 0, carcass_.outerWidth,
                    carcass_.outerHeight, wood.carcassBack, 1)>>
     \o (IF config_.horizontalRails.enabled
           THEN RailPieces(config_, 1)
           ELSE <<>>)

\* ------------------------------------------------------------- drawer box
\* override?.field ?? base
OrElse(opt, base) == IF opt = <<>> THEN base ELSE opt[1]

\* Mutant: the row's override is used whatever the mode.
GetDrawerWood_AnyModeMut(row, config_) ==
  LET base == config_.woodAssignments
      override == row.woodOverride
      Field(f) == IF override = <<>> THEN <<>> ELSE override[1][f]
  IN [sides |-> OrElse(Field("sides"), base.drawerSides),
      frontBack |-> OrElse(Field("frontBack"), base.drawerFrontBack),
      bottom |-> OrElse(Field("bottom"), base.drawerBottom),
      face |-> OrElse(Field("face"), base.drawerFace)]

GetDrawerWood(row, config_) ==
  LET base == config_.woodAssignments
      override == IF config_.advancedWoodMode THEN row.woodOverride ELSE <<>>
      Field(f) == IF override = <<>> THEN <<>> ELSE override[1][f]
  IN [sides |-> OrElse(Field("sides"), base.drawerSides),
      frontBack |-> OrElse(Field("frontBack"), base.drawerFrontBack),
      bottom |-> OrElse(Field("bottom"), base.drawerBottom),
      face |-> OrElse(Field("face"), base.drawerFace)]

CalculateDadoResult(p) ==
  LET sideHeight == p.openingHeight - p.verticalClearance
      frontBackLength == p.boxOuterWidth - 2 * p.sideThickness
  IN [sideHeight |-> sideHeight,
      boxOuterHeight |-> sideHeight,
      bottomWidth |-> frontBackLength + 2 * p.dadoGrooveDepth,
      bottomDepth |->
        p.boxOuterDepth - 2 * p.frontBackThickness + 2 * p.dadoGrooveDepth,
      usableInteriorHeight |->
        sideHeight - p.dadoGrooveOffset - p.bottomThickness,
      usableInteriorDepth |-> p.boxOuterDepth - 2 * p.frontBackThickness]

CalculateButtThroughSidesResult(p) ==
  LET sideHeight == p.openingHeight - p.verticalClearance
  IN [sideHeight |-> sideHeight,
      boxOuterHeight |-> sideHeight,
      bottomWidth |-> p.boxOuterWidth - 2 * p.sideThickness,
      bottomDepth |-> p.boxOuterDepth - 2 * p.frontBackThickness,
      usableInteriorHeight |-> sideHeight - p.bottomThickness,
      usableInteriorDepth |-> p.boxOuterDepth - 2 * p.frontBackThickness]

CalculateButtThroughBottomResult(p) ==
  LET sideHeight == p.openingHeight - p.verticalClearance - p.bottomThickness
  IN [sideHeight |-> sideHeight,
      boxOuterHeight |-> sideHeight + p.bottomThickness,
      bottomWidth |-> p.boxOuterWidth,
      bottomDepth |-> p.boxOuterDepth,
      usableInteriorHeight |-> sideHeight,
      usableInteriorDepth |-> p.boxOuterDepth - 2 * p.frontBackThickness]

ConstructionMethods == {"dado", "butt-through-sides", "butt-through-bottom"}

\* Mutant: butt-through-sides is sized like butt-through-bottom.
GetConstructionStrategy_SidesAsBottomMut(construction, p) ==
  CASE construction = "dado" -> CalculateDadoResult(p)
    [] construction = "butt-through-sides" -> CalculateButtThroughBottomResult(p)
    [] construction = "butt-through-bottom" -> CalculateButtThroughBottomResult(p)

\* Mutant: the dado groove offset is added to the interior height.
GetConstructionStrategy_GrooveSignMut(construction, p) ==
  CASE construction = "dado" ->
         [CalculateDadoResult(p) EXCEPT
            !.usableInteriorHeight =
              p.openingHeight - p.verticalClearance + p.dadoGrooveOffset
                - p.bottomThickness]
    [] construction = "butt-through-sides" -> CalculateButtThroughSidesResult(p)
    [] construction = "butt-through-bottom" -> CalculateButtThroughBottomResult(p)

\* getConstructionStrategy(construction)(p)
GetConstructionStrategy(construction, p) ==
  CASE construction = "dado" -> CalculateDadoResult(p)
    [] construction = "butt-through-sides" -> CalculateButtThroughSidesResult(p)
    [] construction = "butt-through-bottom" -> CalculateButtThroughBottomResult(p)

\* Math.ceil(a / b) for b > 0 (\div rounds towards minus infinity).
CeilDiv(a, b) == -((-a) \div b)

\* Mutant: rounds to the nearest eighth, down as well as up.
RoundUpToNearestEighth_NearestMut(x) == ((x + 4) \div 8) * 8

\* Math.ceil(inches * 8) / 8, on lengths in 1/64 inch.
RoundUpToNearestEighth(x) == CeilDiv(x, 8) * 8

Warning(type) == [type |-> type]

\* Mutant: only a dimension below zero is flagged.
CollectWarnings_StrictMut(dims, config_, openingHeight) ==
  LET allDims == <<dims.boxOuterWidth, dims.boxOuterHeight, dims.boxOuterDepth,
                   dims.bottomWidth, dims.bottomDepth, dims.sideHeight,
                   dims.frontBackHeight, dims.usableInteriorWidth,
                   dims.usableInteriorHeight, dims.usableInteriorDepth>>
  IN (IF openingHeight < config_.slideSpec.minMountingHeight
        THEN <<Warning("slide-height")>> ELSE <<>>)
     \o (IF \E k \in DOMAIN allDims : allDims[k] < 0
           THEN <<Warning("negative-dimension")>> ELSE <<>>)

CollectWarnings(dims, config_, openingHeight) ==
  LET allDims == <<dims.boxOuterWidth, dims.boxOuterHeight, dims.boxOuterDepth,
                   dims.bottomWidth, dims.bottomDepth, dims.sideHeight,
                   dims.frontBackHeight, dims.usableInteriorWidth,
                   dims.usableInteriorHeight, dims.usableInteriorDepth>>
  IN (IF openingHeight < config_.slideSpec.minMountingHeight
        THEN <<Warning("slide-height")>> ELSE <<>>)
     \o (IF \E k \in DOMAIN allDims : allDims[k] <= 0
           THEN <<Warning("negative-dimension")>> ELSE <<>>)

\* Array.findIndex on ids, 1-based here; 0 when no element has the id.
FindIndex(s, id) ==
  IF \E k \in DOMAIN s : s[k].id = id
    THEN CHOOSE k \in DOMAIN s :
           s[k].id = id /\ \A m \in 1..(k - 1) : s[m].id # id
    ELSE 0

FindRowIndex(column, row) == FindIndex(column.rows, row.id)

FindColumnIndex(config_, column) == FindIndex(config_.columns, column.id)

CalculateOverlayFaceWidth(column, columnIndex, config_) ==
  LET dividerThickness == config_.woodAssignments.carcassDividers.actual
      reveal == config_.insetRevealGap
  IN IF Len(config_.columns) = 1
       THEN column.openingWidth
              + 2 * config_.woodAssignments.carcassSides.actual - reveal
       ELSE column.openingWidth + dividerThickness - reveal

CalculateOverlayFaceHeight(row, rowIndex, column, config_) ==
  LET reveal == config_.insetRevealGap
      railHeight == IF config_.horizontalRails.enabled
                      THEN config_.horizontalRails.thickness.actual
                      ELSE 0
  IN IF Len(column.rows) = 1
       THEN row.openingHeight - reveal
       ELSE row.openingHeight + railHeight - reveal

CalculateFaceDimensions(row, column, rowIndex, columnIndex, config_) ==
  IF config_.drawerStyle = "inset"
    THEN [width |-> column.openingWidth - 2 * config_.insetRevealGap,
          height |-> row.openingHeight - 2 * config_.insetRevealGap]
    ELSE [width |-> CalculateOverlayFaceWidth(column, columnIndex, config_),
          height |-> CalculateOverlayFaceHeight(row, rowIndex, column, config_)]

\* The BoxParams calculateDrawerBox hands to the construction strategy.
BoxParams(row, column, config_) ==
  LET wood == GetDrawerWood(row, config_)
  IN [openingHeight |-> row.openingHeight,
      verticalClearance |-> config_.drawerVerticalClearance,
      boxOuterWidth |->
        column.openingWidth - 2 * config_.slideSpec.clearancePerSide,
      boxOuterDepth |-> config_.slideSpec.length,
      sideThickness |-> wood.sides.actual,
      frontBackThickness |-> wood.frontBack.actual,
      bottomThickness |-> wood.bottom.actual,
      dadoGrooveDepth |-> config_.dadoGrooveDepth,
      dadoGrooveOffset |-> config_.dadoGrooveOffset]

CalculateDrawerBox(row, column, config_) ==
  LET wood == GetDrawerWood(row, config_)
      params == BoxParams(row, column, config_)
      boxOuterWidth == params.boxOuterWidth
      boxOuterDepth == params.boxOuterDepth
      frontBackLength == boxOuterWidth - 2 * wood.sides.actual
      result == GetConstructionStrategy(row.construction, params)
      face == CalculateFaceDimensions(row, column, FindRowIndex(column, row),
                                      FindColumnIndex(config_, column), config_)
      dims ==
        [rowId |-> row.id, columnId |-> column.id,
         boxOuterWidth |-> boxOuterWidth,
         boxOuterHeight |-> result.boxOuterHeight,
         boxOuterDepth |-> boxOuterDepth,
         usableInteriorWidth |-> boxOuterWidth - 2 * wood.sides.actual,
         usableInteriorHeight |-> result.usableInteriorHeight,
         usableInteriorDepth |-> result.usableInteriorDepth,
         sideLength |-> boxOuterDepth,
         sideHeight |-> result.sideHeight,
         frontBackLength |-> frontBackLength,
         frontBackHeight |-> result.sideHeight,
         bottomWidth |-> RoundUpToNearestEighth(result.bottomWidth),
         bottomDepth |-> RoundUpToNearestEighth(result.bottomDepth),
         faceWidth |-> RoundUpToNearestEighth(face.width),
         faceHeight |-> RoundUpToNearestEighth(face.height),
         warnings |-> <<>>]
  IN [dims EXCEPT !.warnings = CollectWarnings(dims, config_, row.openingHeight)]

GetDrawerPieces(box, row, config_) ==
  LET wood == GetDrawerWood(row, config_)
  IN <<MakePiece("side", box.columnId, box.rowId, box.sideLength,
                 box.sideHeight, wood.sides, 2),
       MakePiece("front", box.columnId, box.rowId, box.frontBackLength,
                 box.frontBackHeight, wood.frontBack, 1),
       MakePiece("back", box.columnId, box.rowId, box.frontBackLength,
                 box.frontBackHeight, wood.frontBack, 1),
       MakePiece("bottom", box.columnId, box.rowId, box.bottomWidth,
                 box.bottomDepth, wood.bottom, 1),
       MakePiece("face", box.columnId, box.rowId, box.faceWidth,
                 box.faceHeight, wood.face, 1)>>

\* -------------------------------------------------------------- cut list
\* pieceKey: thickness id, width and height.
\* Mutant: the key does not tell a piece from the same piece turned.
PieceKey_UnorderedMut(piece) ==
  IF piece.width <= piece.height
    THEN <<piece.thickness.id, piece.width, piece.height>>
    ELSE <<piece.thickness.id, piece.height, piece.width>>

PieceKey(piece) == <<piece.thickness.id, piece.width, piece.height>>

\* The merge loop of aggregateCutPieces: the first piece of each key, in
\* order of first appearance, with the quantities of its key summed.
RECURSIVE MergeInto(_, _)
MergeInto(merged_, rest) ==
  IF Len(rest) = 0 THEN merged_
  ELSE
    LET piece == Head(rest)
        at == {k \in DOMAIN merged_ : PieceKey(merged_[k]) = PieceKey(piece)}
    IN IF at # {}
         THEN LET k == CHOOSE k \in at : TRUE
              IN MergeInto([merged_ EXCEPT
                              ![k].quantity = merged_[k].quantity + piece.quantity],
                           Tail(rest))
         ELSE MergeInto(Append(merged_, piece), Tail(rest))

\* ---------------------------------------------------- chest configurations
NoOverride == <<>>

Row(id, openingHeight, construction, woodOverride) ==
  [id |-> id, openingHeight |-> openingHeight, construction |-> construction,
   woodOverride |-> woodOverride]

Column(id, openingWidth, rows) ==
  [id |-> id, openingWidth |-> openingWidth, rows |-> rows]

Override(sides, frontBack, bottom, face) ==
  <<[sides |-> sides, frontBack |-> frontBack, bottom |-> bottom, face |-> face]>>

\* The wood assignments of the tests' makeConfig, and a second assignment
\* in which no two parts share a thickness.
TestWood ==
  [carcassTopBottom |-> Ply34, carcassSides |-> Ply34,
   carcassDividers |-> Ply34, carcassBack |-> Ply14,
   drawerSides |-> Ply12, drawerFrontBack |-> Ply12,
   drawerBottom |-> Ply14, drawerFace |-> Ply34]

MixedWood ==
  [carcassTopBottom |-> Hw34, carcassSides |-> Ply34,
   carcassDividers |-> Hw12, carcassBack |-> Ply14,
   drawerSides |-> Ply12, drawerFrontBack |-> Hw12,
   drawerBottom |-> Mdf14, drawerFace |-> Hw1]

\* makeConfig of the tests, on the given columns: 18 inch slides with 1/2 inch
\* clearance, rails disabled, overlay faces, no constraints.
MakeConfig(columns) ==
  [columns |-> columns,
   constraints |-> <<>>,
   drawerStyle |-> "overlay",
   woodAssignments |-> TestWood,
   advancedWoodMode |-> FALSE,
   slideSpec |-> [length |-> 1152, clearancePerSide |-> 32,
                  minMountingHeight |-> 112],
   horizontalRails |-> [enabled |-> FALSE, thickness |-> Hw34, width |-> 192],
   dadoGrooveDepth |-> 16,
   dadoGrooveOffset |-> 24,
   insetRevealGap |-> 4,
   drawerVerticalClearance |-> 48,
   drawerBackClearance |-> 32]

\* Construction methods in turn, so that the rows of a chest differ.
MethodOf(k) ==
  <<"dado", "butt-through-sides", "butt-through-bottom">>[(k % 3) + 1]

DadoRows(heights) ==
  [j \in DOMAIN heights |-> Row(j, heights[j], "dado", NoOverride)]

\* A column of n rows whose first row is h high and each next one an inch more.
SteppedColumn(i, w, n, h) ==
  Column(i, w, [j \in 1..n |-> Row(j, h + 64 * (j - 1), MethodOf(i + j), NoOverride)])

OpeningWidths == {128, 896}
OpeningHeights == {96, 384}

ColumnShapes == [width : OpeningWidths, rows : 1..MaxRows, height : OpeningHeights]

ColumnLists ==
  UNION {{[i \in 1..n |-> SteppedColumn(i, f[i].width, f[i].rows, f[i].height)] :
            f \in [1..n -> ColumnShapes]} : n \in 1..MaxCols}

\* The spec's scenario: one column 14 inches wide, three rows of 6 inches.
ScenarioColumns == <<Column(1, 896, DadoRows(<<384, 384, 384>>))>>

\* Chests of every shape within the bounds.
StructureConfigs ==
  {[MakeConfig(cols) EXCEPT !.horizontalRails.enabled = e,
                            !.woodAssignments = wood] :
     cols \in ColumnLists, e \in BOOLEAN, wood \in {TestWood, MixedWood}}

\* One drawer at and around the sizes at which a dimension reaches zero.
InfeasibleConfigs ==
  {[MakeConfig(<<Column(1, w, <<Row(1, h, m, NoOverride)>>)>>) EXCEPT
      !.slideSpec.length = len] :
     w \in {-64, 0, 64, 124, 125, 896},
     h \in {-64, 48, 49, 64, 65, 88, 89, 384},
     len \in {-64, 0, 60, 61, 1152},
     m \in ConstructionMethods}

Overrides ==
  {NoOverride,
   Override(<<>>, <<>>, <<>>, <<>>),
   Override(<<Hw34>>, <<>>, <<>>, <<>>),
   Override(<<Hw12>>, <<Ply14>>, <<Ply12>>, <<Hw34>>)}

\* Chests whose first drawer carries a material override.
MaterialConfigs ==
  {[MakeConfig(cols) EXCEPT !.advancedWoodMode = adv,
                            !.woodAssignments = wood,
                            !.drawerStyle = st,
                            !.horizontalRails.enabled = e] :
     cols \in
       UNION {{<<Column(1, 896, <<Row(1, 384, m, o)>>)>>,
               <<Column(1, 896, <<Row(1, 384, m, o),
                                  Row(2, 256, m, NoOverride)>>),
                 Column(2, 640, <<Row(1, 512, m, NoOverride)>>)>>} :
                m \in ConstructionMethods, o \in Overrides},
     adv \in BOOLEAN, wood \in {TestWood, MixedWood},
     st \in {"overlay", "inset"}, e \in BOOLEAN}

\* The scenario chest under constraints at and around its outer dimensions.
ConstrainedConfigs ==
  {[MakeConfig(ScenarioColumns) EXCEPT !.constraints = cons] :
     cons \in {<<>>} \cup
              {<<Dims(w, h, d)>> : w \in {987, 988, 989},
                                   h \in {1243, 1244, 1245},
                                   d \in {1199, 1200, 1201}}}

\* Chests of the carcass and drawer tests: two columns with a divider, a
\* taller second column, rails on three rows and on a single row, constraints
\* of 10 and of 100 inches, three equal columns, and a chest too small to
\* build.
TestConfigs ==
  {MakeConfig(<<Column(1, 768, DadoRows(<<384, 384>>)),
                Column(2, 896, DadoRows(<<384, 384>>))>>),
   MakeConfig(<<Column(1, 768, DadoRows(<<384, 384>>)),
                Column(2, 896, DadoRows(<<512, 512, 512>>))>>),
   [MakeConfig(ScenarioColumns) EXCEPT !.horizontalRails.enabled = TRUE],
   [MakeConfig(<<Column(1, 896, DadoRows(<<384>>))>>) EXCEPT
      !.horizontalRails.enabled = TRUE],
   [MakeConfig(ScenarioColumns) EXCEPT !.constraints = <<Dims(640, 640, 640)>>],
   [MakeConfig(ScenarioColumns) EXCEPT
      !.constraints = <<Dims(6400, 6400, 6400)>>],
   MakeConfig(<<Column(1, 896, DadoRows(<<384>>)),
                Column(2, 896, DadoRows(<<384>>)),
                Column(3, 896, DadoRows(<<384>>))>>),
   MakeConfig(<<Column(1, 64, <<Row(1, 32, "butt-through-bottom",
                                    NoOverride)>>)>>)}

Configs ==
  StructureConfigs \cup InfeasibleConfigs \cup MaterialConfigs
    \cup ConstrainedConfigs \cup TestConfigs

\* ------------------------------------------------------- engine actions
\* The packer before any pieces are handed to it.
PackIdle ==
  /\ pieces = <<>>
  /\ sheet = Sheet48x96
  /\ kerfWidth = 0
  /\ allowRotation = FALSE
  /\ pc = "idle"
  /\ unplaced = <<>>
  /\ idx = 0
  /\ freeRects = <<>>
  /\ placements = <<>>
  /\ remaining = <<>>
  /\ layouts = <<>>
  /\ passes = 0
  /\ steps = 0

\* Everything but one part at rest.
NonEngineIdle == PackIdle /\ GridIdle /\ FitIdle /\ JigIdle /\ StoreIdle

NonGridIdle == PackIdle /\ EngineIdle /\ FitIdle /\ JigIdle /\ StoreIdle

NonFitIdle == PackIdle /\ EngineIdle /\ GridIdle /\ JigIdle /\ StoreIdle

NonJigIdle == PackIdle /\ EngineIdle /\ GridIdle /\ FitIdle /\ StoreIdle

NonStoreIdle == PackIdle /\ EngineIdle /\ GridIdle /\ FitIdle /\ JigIdle

EngineInit ==
  /\ NonEngineIdle
  /\ config \in Configs
  /\ epc = "carcass"
  /\ carcass = NoCarcass
  /\ allPieces = <<>>
  /\ merged = <<>>
  /\ boxes = <<>>
  /\ colIdx = 0
  /\ rowIdx = 0

\* const carcass = calculateCarcassDimensions(config)
CalcCarcass ==
  /\ epc = "carcass"
  /\ carcass' = CalculateCarcassDimensions(config)
  /\ epc' = "pieces"
  /\ UNCHANGED <<nonEngineVars, config, allPieces, merged, boxes, colIdx, rowIdx>>

\* const allPieces = getCarcassPieces(config, carcass); enter the column loop.
CarcassPieces ==
  /\ epc = "pieces"
  /\ allPieces' = GetCarcassPieces(config, carcass)
  /\ colIdx' = 1
  /\ rowIdx' = 1
  /\ epc' = "drawers"
  /\ UNCHANGED <<nonEngineVars, config, carcass, merged, boxes>>

\* One pass of the row loop: size the drawer and push its pieces.
DrawerStep ==
  /\ epc = "drawers"
  /\ colIdx <= Len(config.columns)
  /\ rowIdx <= Len(config.columns[colIdx].rows)
  /\ LET column == config.columns[colIdx]
         row == column.rows[rowIdx]
         box == CalculateDrawerBox(row, column, config)
     IN /\ boxes' = Append(boxes, box)
        /\ allPieces' = allPieces \o GetDrawerPieces(box, row, config)
  /\ rowIdx' = rowIdx + 1
  /\ UNCHANGED <<nonEngineVars, config, epc, carcass, merged, colIdx>>

\* The rows of a column are done: on to the next column.
NextColumn ==
  /\ epc = "drawers"
  /\ colIdx <= Len(config.columns)
  /\ rowIdx > Len(config.columns[colIdx].rows)
  /\ colIdx' = colIdx + 1
  /\ rowIdx' = 1
  /\ UNCHANGED <<nonEngineVars, config, epc, carcass, allPieces, merged, boxes>>

\* The columns are done: merge equal pieces and return.
Merge ==
  /\ epc = "drawers"
  /\ colIdx > Len(config.columns)
  /\ merged' = MergeInto(<<>>, allPieces)
  /\ epc' = "done"
  /\ UNCHANGED <<nonEngineVars, config, carcass, allPieces, boxes, colIdx, rowIdx>>

EngineNext == CalcCarcass \/ CarcassPieces \/ DrawerStep \/ NextColumn \/ Merge

EngineSpec == EngineInit /\ [][EngineNext]_vars

\* ---------------------------------------------------------- engine claims
DimNames == {"width", "height", "depth"}

\* The outer dimensions recorded in the carcass, by dimension name.
Outer == Dims(carcass.outerWidth, carcass.outerHeight, carcass.outerDepth)

NumColumns == Len(config.columns)

NumRows(i) == Len(config.columns[i].rows)

\* The indices of the violations recorded for dimension d.
ViolationsOf(d) ==
  {k \in DOMAIN carcass.constraintViolations :
     carcass.constraintViolations[k].dimension = d}

\* C11: checkConstraintViolations reports dimension d if and only if
\* constraints are present and the actual outer size exceeds the maximum
\* strictly: nothing without constraints, nothing at actual = max, always
\* at actual > max, at most one violation per dimension, each carrying that
\* dimension's actual and maximum.
C11_ViolationIffExceeds ==
  epc # "carcass" =>
    /\ config.constraints = <<>> => carcass.constraintViolations = <<>>
    /\ config.constraints # <<>> =>
         \A d \in DimNames :
           /\ Cardinality(ViolationsOf(d)) <= 1
           /\ ViolationsOf(d) # {} <=> Outer[d] > config.constraints[1][d]
           /\ \A k \in ViolationsOf(d) :
                /\ carcass.constraintViolations[k].actual = Outer[d]
                /\ carcass.constraintViolations[k].max = config.constraints[1][d]
    /\ \A k \in DOMAIN carcass.constraintViolations :
         carcass.constraintViolations[k].dimension \in DimNames

\* Constraints with the width exactly at its maximum (no violation), the
\* height one unit above it (reported) and the depth one unit below.
C11_Witness ==
  /\ epc = "done"
  /\ config.constraints # <<>>
  /\ Outer.width = config.constraints[1].width
  /\ Outer.height = config.constraints[1].height + 1
  /\ Outer.depth = config.constraints[1].depth - 1
  /\ Len(carcass.constraintViolations) = 1
  /\ carcass.constraintViolations[1].dimension = "height"

\* The inner height of column i as the claim states it.
ColumnHeight(i) ==
  SumSeq([j \in 1..NumRows(i) |-> config.columns[i].rows[j].openingHeight])
    + (IF config.horizontalRails.enabled /\ NumRows(i) > 1
         THEN (NumRows(i) - 1) * config.horizontalRails.thickness.actual
         ELSE 0)

\* C12: for a configuration with at least one column, outerWidth is twice
\* the side thickness plus the column opening widths plus one divider per
\* gap, and outerHeight is twice the top/bottom thickness plus the largest
\* column height (row heights, plus one rail per gap between rows when rails
\* are enabled and the column has more than one row); the scenario chest is
\* 15.4375 wide (988/64) and 18.75 deep (1200/64).
C12_CarcassOuterSize ==
  epc # "carcass" =>
    /\ carcass.outerWidth =
         2 * config.woodAssignments.carcassSides.actual
           + SumSeq([i \in 1..NumColumns |-> config.columns[i].openingWidth])
           + (NumColumns - 1) * config.woodAssignments.carcassDividers.actual
    /\ \E i \in 1..NumColumns :
         /\ carcass.outerHeight =
              2 * config.woodAssignments.carcassTopBottom.actual + ColumnHeight(i)
         /\ \A m \in 1..NumColumns : ColumnHeight(m) <= ColumnHeight(i)
    /\ config = MakeConfig(ScenarioColumns) =>
         carcass.outerWidth = 988 /\ carcass.outerDepth = 1200

\* Rails enabled, a single-row column, and a tallest column that is not the
\* first one.
C12_Witness ==
  /\ epc = "done"
  /\ NumColumns >= 2
  /\ config.horizontalRails.enabled
  /\ NumRows(1) = 1
  /\ \E i \in 2..NumColumns :
       /\ NumRows(i) > 1
       /\ ColumnHeight(i) > ColumnHeight(1)
       /\ carcass.outerHeight =
            2 * config.woodAssignments.carcassTopBottom.actual + ColumnHeight(i)

CarcassKinds ==
  {"carcass-top", "carcass-bottom", "carcass-sides", "carcass-dividers",
   "carcass-back", "horizontal-rails-col"}

\* The carcass entries of the piece list, in order.
CarcassEntries == SelectSeq(allPieces, LAMBDA p : p.id.kind \in CarcassKinds)

EntriesOf(kind) == SelectSeq(CarcassEntries, LAMBDA p : p.id.kind = kind)

IsPanel(p, w, h, thickness, q) ==
  p.width = w /\ p.height = h /\ p.thickness = thickness /\ p.quantity = q

\* The columns that get rails: those with more than one row.
RailColumns == {i \in 1..NumColumns : NumRows(i) > 1}

\* C13: getCarcassPieces returns exactly one top and one bottom
\* (innerWidth x innerDepth), one side entry of quantity 2 (innerDepth x
\* outerHeight less twice the top/bottom thickness), one divider entry of
\* quantity numColumns - 1 with the side dimensions and the divider
\* thickness exactly when there is more than one column, one back panel
\* (outerWidth x outerHeight) and, exactly when rails are enabled, one rail
\* entry per column of more than one row (opening width x rail width,
\* quantity rows - 1); the rail quantities add up to the sum of rows - 1
\* when enabled and to 0 when disabled.
C13_CarcassPieceList ==
  epc \notin {"carcass", "pieces"} =>
    LET wood == config.woodAssignments
        panelHeight == carcass.outerHeight - 2 * wood.carcassTopBottom.actual
        rails == EntriesOf("horizontal-rails-col")
        dividers == EntriesOf("carcass-dividers")
    IN /\ Len(EntriesOf("carcass-top")) = 1
       /\ IsPanel(EntriesOf("carcass-top")[1], carcass.innerWidth,
                  carcass.innerDepth, wood.carcassTopBottom, 1)
       /\ Len(EntriesOf("carcass-bottom")) = 1
       /\ IsPanel(EntriesOf("carcass-bottom")[1], carcass.innerWidth,
                  carcass.innerDepth, wood.carcassTopBottom, 1)
       /\ Len(EntriesOf("carcass-sides")) = 1
       /\ IsPanel(EntriesOf("carcass-sides")[1], carcass.innerDepth,
                  panelHeight, wood.carcassSides, 2)
       /\ Len(dividers) = (IF NumColumns > 1 THEN 1 ELSE 0)
       /\ \A k \in DOMAIN dividers :
            IsPanel(dividers[k], carcass.innerDepth, panelHeight,
                    wood.carcassDividers, NumColumns - 1)
       /\ Len(EntriesOf("carcass-back")) = 1
       /\ IsPanel(EntriesOf("carcass-back")[1], carcass.outerWidth,
                  carcass.outerHeight, wood.carcassBack, 1)
       /\ ~config.horizontalRails.enabled => rails = <<>>
       /\ config.horizontalRails.enabled =>
            /\ Len(rails) = Cardinality(RailColumns)
            /\ \A i \in RailColumns :
                 \E k \in DOMAIN rails :
                   /\ rails[k].id.col = i - 1
                   /\ IsPanel(rails[k], config.columns[i].openingWidth,
                              config.horizontalRails.width,
                              config.horizontalRails.thickness, NumRows(i) - 1)
       /\ SumSeq([k \in DOMAIN rails |-> rails[k].quantity]) =
            (IF config.horizontalRails.enabled
               THEN SumSeq([i \in 1..NumColumns |-> NumRows(i) - 1])
               ELSE 0)
       /\ Len(CarcassEntries) =
            4 + Len(dividers) + Len(rails)

\* Rails enabled on a chest with a divider, a single-row column and a column
\* of several rows.
C13_Witness ==
  /\ epc = "done"
  /\ config.horizontalRails.enabled
  /\ NumColumns > 1
  /\ \E i \in 1..NumColumns : NumRows(i) = 1
  /\ \E i \in 1..NumColumns : NumRows(i) > 1
  /\ Len(EntriesOf("horizontal-rails-col")) = Cardinality(RailColumns)
  /\ Len(EntriesOf("carcass-dividers")) = 1

HasWarning(box, type) == \E k \in DOMAIN box.warnings : box.warnings[k].type = type

\* Some drawer of the chest carries a negative-dimension warning.
AnyNegativeWarning ==
  \E k \in DOMAIN boxes : HasWarning(boxes[k], "negative-dimension")

ColumnOf(box) == config.columns[box.columnId]

RowOf(box) == ColumnOf(box).rows[box.rowId]

\* The box of the same row built by another construction method.
BoxWith(box, method) ==
  CalculateDrawerBox([RowOf(box) EXCEPT !.construction = method],
                     ColumnOf(box), config)

\* C15: changing only a row's construction method leaves usableInteriorWidth
\* the same, and usableInteriorHeight is ordered butt-through-bottom >=
\* butt-through-sides >= dado.
C15_ConstructionOrder ==
  epc = "done" =>
    \A k \in DOMAIN boxes :
      LET dado == BoxWith(boxes[k], "dado")
          sides == BoxWith(boxes[k], "butt-through-sides")
          bottom == BoxWith(boxes[k], "butt-through-bottom")
      IN /\ boxes[k] = BoxWith(boxes[k], RowOf(boxes[k]).construction)
         /\ dado.usableInteriorWidth = sides.usableInteriorWidth
         /\ sides.usableInteriorWidth = bottom.usableInteriorWidth
         /\ boxes[k].usableInteriorWidth = dado.usableInteriorWidth
         /\ bottom.usableInteriorHeight >= sides.usableInteriorHeight
         /\ sides.usableInteriorHeight >= dado.usableInteriorHeight

\* A dado drawer that loses height to the groove offset, next to what the
\* other two methods would give the same row.
C15_Witness ==
  /\ epc = "done"
  /\ \E k \in DOMAIN boxes :
       /\ RowOf(boxes[k]).construction = "dado"
       /\ boxes[k].usableInteriorHeight > 0
       /\ BoxWith(boxes[k], "butt-through-sides").usableInteriorHeight
            > boxes[k].usableInteriorHeight
       /\ BoxWith(boxes[k], "butt-through-bottom").usableInteriorHeight
            = BoxWith(boxes[k], "butt-through-sides").usableInteriorHeight

\* The materials of a recorded drawer box.
WoodOf(box) == GetDrawerWood(RowOf(box), config)

\* The bottom panel and the face of a recorded box before rounding.
UnroundedBottom(box) ==
  GetConstructionStrategy(RowOf(box).construction,
                          BoxParams(RowOf(box), ColumnOf(box), config))

UnroundedFace(box) ==
  CalculateFaceDimensions(RowOf(box), ColumnOf(box), box.rowId, box.columnId,
                          config)

\* C16: calculateDrawerBox follows the construction table: boxOuterWidth is
\* the opening width less twice the slide clearance and boxOuterDepth the
\* slide length; sideHeight is the opening height less the vertical
\* clearance (less the bottom thickness too for butt-through-bottom, whose
\* boxOuterHeight adds it back; otherwise boxOuterHeight = sideHeight); the
\* bottom panel before rounding is (frontBackLength + 2 grooveDepth) x
\* (boxOuterDepth - 2 frontBackThickness + 2 grooveDepth) for dado,
\* (boxOuterWidth - 2 sideThickness) x (boxOuterDepth - 2
\* frontBackThickness) for butt-through-sides, and boxOuterWidth x
\* boxOuterDepth for butt-through-bottom.
C16_ConstructionTable ==
  epc = "done" =>
    \A k \in DOMAIN boxes :
      LET box == boxes[k]
          method == RowOf(box).construction
          opening == RowOf(box).openingHeight
          clearance == config.drawerVerticalClearance
          wood == WoodOf(box)
          bottom == UnroundedBottom(box)
      IN /\ box.boxOuterWidth =
              ColumnOf(box).openingWidth - 2 * config.slideSpec.clearancePerSide
         /\ box.boxOuterDepth = config.slideSpec.length
         /\ method \in {"dado", "butt-through-sides"} =>
              /\ box.sideHeight = opening - clearance
              /\ box.boxOuterHeight = box.sideHeight
         /\ method = "butt-through-bottom" =>
              /\ box.sideHeight = opening - clearance - wood.bottom.actual
              /\ box.boxOuterHeight = box.sideHeight + wood.bottom.actual
         /\ method = "dado" =>
              /\ bottom.bottomWidth =
                   box.frontBackLength + 2 * config.dadoGrooveDepth
              /\ bottom.bottomDepth =
                   box.boxOuterDepth - 2 * wood.frontBack.actual
                     + 2 * config.dadoGrooveDepth
         /\ method = "butt-through-sides" =>
              /\ bottom.bottomWidth = box.boxOuterWidth - 2 * wood.sides.actual
              /\ bottom.bottomDepth =
                   box.boxOuterDepth - 2 * wood.frontBack.actual
         /\ method = "butt-through-bottom" =>
              /\ bottom.bottomWidth = box.boxOuterWidth
              /\ bottom.bottomDepth = box.boxOuterDepth
         /\ box.bottomWidth = RoundUpToNearestEighth(bottom.bottomWidth)
         /\ box.bottomDepth = RoundUpToNearestEighth(bottom.bottomDepth)

\* A chest whose drawers use all three construction methods.
C16_Witness ==
  /\ epc = "done"
  /\ \A m \in ConstructionMethods :
       \E k \in DOMAIN boxes :
         /\ RowOf(boxes[k]).construction = m
         /\ ~HasWarning(boxes[k], "negative-dimension")

\* v is u rounded up to a whole eighth: a multiple of 1/8 (8 units), not
\* below u and less than 1/8 above it.
RoundedUp(v, u) == v % 8 = 0 /\ v >= u /\ v - u < 8

\* C17: bottomWidth, bottomDepth, faceWidth and faceHeight of every drawer
\* box are rounded up to the nearest 1/8: multiples of 1/8, not below the
\* unrounded value and less than 1/8 above it, also for thicknesses that
\* are not multiples of 1/8 such as 15/32.
C17_RoundedUpToEighth ==
  epc = "done" =>
    \A k \in DOMAIN boxes :
      /\ RoundedUp(boxes[k].bottomWidth, UnroundedBottom(boxes[k]).bottomWidth)
      /\ RoundedUp(boxes[k].bottomDepth, UnroundedBottom(boxes[k]).bottomDepth)
      /\ RoundedUp(boxes[k].faceWidth, UnroundedFace(boxes[k]).width)
      /\ RoundedUp(boxes[k].faceHeight, UnroundedFace(boxes[k]).height)

\* A drawer with 15/32 sides whose bottom and face were both rounded up.
C17_Witness ==
  /\ epc = "done"
  /\ \E k \in DOMAIN boxes :
       /\ WoodOf(boxes[k]).sides.actual = 30
       /\ boxes[k].bottomWidth > UnroundedBottom(boxes[k]).bottomWidth
       /\ boxes[k].bottomDepth > UnroundedBottom(boxes[k]).bottomDepth
       /\ boxes[k].faceWidth > UnroundedFace(boxes[k]).width
       /\ boxes[k].faceHeight > UnroundedFace(boxes[k]).height

\* C18: for the overlay style the face width before rounding depends on the
\* column's position: opening + 2 sideThickness - revealGap in a
\* single-column chest, opening + sideThickness + dividerThickness/2 -
\* revealGap/2 for an edge column (exactly one neighbour), and opening +
\* dividerThickness - revealGap for an interior column. Both sides of the
\* edge-column equation are doubled to stay in whole units.
C18_OverlayFaceWidthByPosition ==
  (epc = "done" /\ config.drawerStyle = "overlay") =>
    \A k \in DOMAIN boxes :
      LET i == boxes[k].columnId
          n == Len(config.columns)
          opening == ColumnOf(boxes[k]).openingWidth
          side == config.woodAssignments.carcassSides.actual
          divider == config.woodAssignments.carcassDividers.actual
          reveal == config.insetRevealGap
          width == UnroundedFace(boxes[k]).width
      IN /\ n = 1 => width = opening + 2 * side - reveal
         /\ (n > 1 /\ i \in {1, n}) =>
              2 * width = 2 * opening + 2 * side + divider - reveal
         /\ (n > 1 /\ i \notin {1, n}) =>
              width = opening + divider - reveal

\* The computed dimensions of a drawer box that the warning is about.
CheckedDimensions(box) ==
  {box.boxOuterWidth, box.boxOuterHeight, box.boxOuterDepth,
   box.bottomWidth, box.bottomDepth, box.sideHeight, box.frontBackHeight,
   box.usableInteriorWidth, box.usableInteriorHeight, box.usableInteriorDepth}

\* The fields of DrawerBoxDimensions.
DrawerBoxFields ==
  {"rowId", "columnId", "boxOuterWidth", "boxOuterHeight", "boxOuterDepth",
   "usableInteriorWidth", "usableInteriorHeight", "usableInteriorDepth",
   "sideLength", "sideHeight", "frontBackLength", "frontBackHeight",
   "bottomWidth", "bottomDepth", "faceWidth", "faceHeight", "warnings"}

\* The number of warnings of a type on a box.
WarningCount(box, type) ==
  Cardinality({k \in DOMAIN box.warnings : box.warnings[k].type = type})

\* C19: calculateDrawerBox attaches a negative-dimension warning if and only
\* if at least one computed dimension (box outer width, height, depth,
\* bottom width, depth, side height, front/back height, usable interior
\* width, height, depth) is <= 0, attaches at most one such warning, and
\* returns the full dimension record with the warning as a value.
C19_NegativeDimensionWarning ==
  epc = "done" =>
    \A i \in DOMAIN config.columns :
      \A j \in DOMAIN config.columns[i].rows :
        \E k \in DOMAIN boxes :
          LET box == boxes[k]
          IN /\ box.columnId = i /\ box.rowId = j
             /\ DOMAIN box = DrawerBoxFields
             /\ HasWarning(box, "negative-dimension")
                  <=> \E d \in CheckedDimensions(box) : d <= 0
             /\ WarningCount(box, "negative-dimension") <= 1
             /\ \A w \in DOMAIN box.warnings :
                  box.warnings[w].type \in {"slide-height", "negative-dimension"}

\* A drawer with a dimension of exactly zero and none below: it is warned
\* about once and still fully dimensioned.
C19_Witness ==
  /\ epc = "done"
  /\ \E k \in DOMAIN boxes :
       /\ 0 \in CheckedDimensions(boxes[k])
       /\ \A d \in CheckedDimensions(boxes[k]) : d >= 0
       /\ WarningCount(boxes[k], "negative-dimension") = 1
       /\ boxes[k].boxOuterDepth > 0

\* The drawer entries of the piece list and the drawer part each is cut for.
DrawerKinds == {"side", "front", "back", "bottom", "face"}

PartOf(kind) ==
  CASE kind = "side" -> "sides"
    [] kind \in {"front", "back"} -> "frontBack"
    [] kind = "bottom" -> "bottom"
    [] kind = "face" -> "face"

\* The chest-wide assignment of a drawer part.
ChestWide(part) ==
  CASE part = "sides" -> config.woodAssignments.drawerSides
    [] part = "frontBack" -> config.woodAssignments.drawerFrontBack
    [] part = "bottom" -> config.woodAssignments.drawerBottom
    [] part = "face" -> config.woodAssignments.drawerFace

\* The row overrides the part.
Overridden(row, part) ==
  /\ row.woodOverride # NoOverride
  /\ row.woodOverride[1][part] # <<>>

\* The material a part of a row's drawer is to be cut from.
ExpectedWood(row, part) ==
  IF config.advancedWoodMode /\ Overridden(row, part)
    THEN row.woodOverride[1][part][1]
    ELSE ChestWide(part)

\* The configuration with every row's override removed.
WithoutOverrides ==
  [config EXCEPT !.columns =
     [i \in DOMAIN config.columns |->
        [config.columns[i] EXCEPT !.rows =
           [j \in DOMAIN config.columns[i].rows |->
              [config.columns[i].rows[j] EXCEPT !.woodOverride = NoOverride]]]]]

\* C20: per-row material overrides take effect only in advanced mode. With
\* advancedWoodMode = false the drawer boxes and drawer pieces are those of
\* the configuration without any override (so two configurations that
\* differ only in overrides give identical results) and every piece has the
\* chest-wide thickness; with advancedWoodMode = true each overridden part
\* uses the override and each other part the chest-wide assignment.
C20_OverridesOnlyInAdvancedMode ==
  epc = "done" =>
    /\ \A n \in DOMAIN allPieces :
         allPieces[n].id.kind \in DrawerKinds =>
           allPieces[n].thickness =
             ExpectedWood(config.columns[allPieces[n].id.col]
                                .rows[allPieces[n].id.row],
                          PartOf(allPieces[n].id.kind))
    /\ \A k \in DOMAIN boxes :
         LET box == boxes[k]
             row == RowOf(box)
         IN /\ box.usableInteriorWidth =
                 box.boxOuterWidth - 2 * ExpectedWood(row, "sides").actual
            /\ box.usableInteriorDepth =
                 box.boxOuterDepth - 2 * ExpectedWood(row, "frontBack").actual
            /\ box.usableInteriorHeight =
                 box.boxOuterHeight - ExpectedWood(row, "bottom").actual
                   - (IF row.construction = "dado"
                        THEN config.dadoGrooveOffset ELSE 0)
            /\ \E n \in DOMAIN allPieces :
                 /\ allPieces[n].id = [kind |-> "side", col |-> box.columnId,
                                       row |-> box.rowId]
                 /\ SubSeq(allPieces, n, n + 4) = GetDrawerPieces(box, row, config)
            /\ ~config.advancedWoodMode =>
                 LET plain == WithoutOverrides
                     plainColumn == plain.columns[box.columnId]
                     plainRow == plainColumn.rows[box.rowId]
                     plainBox == CalculateDrawerBox(plainRow, plainColumn, plain)
                 IN /\ box = plainBox
                    /\ GetDrawerPieces(box, row, config)
                         = GetDrawerPieces(plainBox, plainRow, plain)

\* A chest in basic mode with a row whose override names another side
\* material: the override would change the box in advanced mode and is
\* ignored here.
C20_Witness ==
  /\ epc = "done"
  /\ ~config.advancedWoodMode
  /\ \E k \in DOMAIN boxes :
       /\ Overridden(RowOf(boxes[k]), "sides")
       /\ RowOf(boxes[k]).woodOverride[1].sides[1] # ChestWide("sides")
       /\ boxes[k] # CalculateDrawerBox(RowOf(boxes[k]), ColumnOf(boxes[k]),
                                        [config EXCEPT !.advancedWoodMode = TRUE])
       /\ boxes[k] = CalculateDrawerBox(RowOf(boxes[k]), ColumnOf(boxes[k]),
                                        WithoutOverrides)

\* Two pieces of the same material thickness, width and height.
SameTriple(a, b) ==
  /\ a.thickness.id = b.thickness.id
  /\ a.width = b.width
  /\ a.height = b.height

\* The pieces of a list that are of the triple of piece a.
OfTriple(list, a) == {n \in DOMAIN list : SameTriple(list[n], a)}

\* Total quantity and total area of the pieces of a thickness in a list.
QuantityOf(list, id) ==
  SumSeq([n \in DOMAIN list |->
            IF list[n].thickness.id = id THEN list[n].quantity ELSE 0])

AreaOf(list, id) ==
  SumSeq([n \in DOMAIN list |->
            IF list[n].thickness.id = id
              THEN list[n].width * list[n].height * list[n].quantity ELSE 0])

ThicknessIds == {allPieces[n].thickness.id : n \in DOMAIN allPieces}

\* C21: aggregateCutPieces merges two pieces if and only if they have the
\* same thickness id, width and height, in this order of the dimensions:
\* the result has exactly one entry per triple occurring among the carcass
\* and drawer pieces, its quantity is the sum over the pieces of the triple,
\* pieces of different thicknesses are never merged, and total quantity and
\* total area per thickness are the same before and after.
C21_MergeByTriple ==
  epc = "done" =>
    /\ \A n \in DOMAIN allPieces :
         Cardinality(OfTriple(merged, allPieces[n])) = 1
    /\ \A k \in DOMAIN merged :
         /\ OfTriple(allPieces, merged[k]) # {}
         /\ merged[k].quantity =
              SumSeq([n \in DOMAIN allPieces |->
                        IF SameTriple(allPieces[n], merged[k])
                          THEN allPieces[n].quantity ELSE 0])
         /\ \A n \in OfTriple(allPieces, merged[k]) :
              merged[k].thickness = allPieces[n].thickness
    /\ \A id \in ThicknessIds :
         /\ QuantityOf(merged, id) = QuantityOf(allPieces, id)
         /\ AreaOf(merged, id) = AreaOf(allPieces, id)
    /\ {merged[k].thickness.id : k \in DOMAIN merged} = ThicknessIds

\* A cut list in which equal pieces were merged, a piece and the same piece
\* turned stayed apart, and so did equal sizes of two thicknesses.
C21_Witness ==
  /\ epc = "done"
  /\ \E k \in DOMAIN merged : Cardinality(OfTriple(allPieces, merged[k])) >= 2
  /\ \E j, k \in DOMAIN merged :
       /\ j # k
       /\ merged[j].thickness.id = merged[k].thickness.id
       /\ merged[j].width = merged[k].height
       /\ merged[j].height = merged[k].width
  /\ \E j, k \in DOMAIN merged :
       /\ merged[j].thickness.id # merged[k].thickness.id
       /\ merged[j].width = merged[k].width
       /\ merged[j].height = merged[k].height

\* ------------------------------------------------- gridfinity sizing
\* The reverse calculation mixes millimetres and inches (42 mm = 210/127
\* inch), so its numbers are exact integers in a finer unit: Inch units make
\* the number 1.  With 25.4 mm to the inch a millimetre is Inch / 25.4 =
\* 16000 units and 1/64 is 6350 units.
Inch == 406400

PerMm == 16000

Fine(sixtyFourths) == sixtyFourths * 6350

GRID_UNIT_MM == 42

BIN_HEIGHT_UNIT_MM == 7

BIN_HEIGHT_BASE_MM == 4

MAX_BIN_UNITS == 12

\* At most MaxGrid grid units across a drawer.
MaxGrid == 8

\* toMm, scaled by 127 * PerMm so that both units give whole numbers: an
\* inch number times 25.4 and a centimetre number times 10.
MmScale == 127 * PerMm

ToMm(value, unit) == IF unit = "inches" THEN value * 127 ELSE value * 50

GridfinityGridUnits(dimensionMm) == dimensionMm \div (GRID_UNIT_MM * MmScale)

GridfinityBinHeightMm(units) == units * BIN_HEIGHT_UNIT_MM + BIN_HEIGHT_BASE_MM

\* The loop of gridfinityMaxBinUnits stops at the first bin height that
\* does not fit: the result is the largest u all of whose predecessors fit.
GridfinityMaxBinUnits(interiorHeightMm) ==
  LET Fits(u) == GridfinityBinHeightMm(u) * MmScale <= interiorHeightMm
      reached == {u \in 1..MAX_BIN_UNITS : \A v \in 1..u : Fits(v)}
  IN IF reached = {} THEN 0 ELSE CHOOSE u \in reached : \A v \in reached : v <= u

\* Mutant: rounding to the nearest eighth instead of up.
RoundUpToNearestEighthOf_NearestMut(inches) ==
  ((inches + Inch \div 16) \div (Inch \div 8)) * (Inch \div 8)

\* roundUpToNearestEighth on numbers in fine units.
RoundUpToNearestEighthOf(inches) == CeilDiv(inches, Inch \div 8) * (Inch \div 8)

OpeningWidthForGridUnits(gridUnits, drawerSideThickness, clearancePerSide) ==
  LET minInteriorMm == gridUnits * GRID_UNIT_MM
      minInteriorInches == minInteriorMm * PerMm
  IN RoundUpToNearestEighthOf(
       minInteriorInches + 2 * drawerSideThickness + 2 * clearancePerSide)

OpeningHeightForBinUnits(binUnits, construction, verticalClearance, bottomThickness, dadoGrooveOffset) ==
  LET minInteriorMm == GridfinityBinHeightMm(binUnits)
      minInteriorInches == minInteriorMm * PerMm
  IN IF construction = "dado"
       THEN RoundUpToNearestEighthOf(
              minInteriorInches + dadoGrooveOffset + bottomThickness
                + verticalClearance)
       ELSE RoundUpToNearestEighthOf(
              minInteriorInches + bottomThickness + verticalClearance)

\* Requests: a width request for every grid-unit count, side thickness and
\* clearance, and a height request for every bin-unit count, method,
\* clearance, bottom thickness and groove offset.
GridThicknesses == {0, Fine(16), Fine(30), Fine(46), Fine(68)}

GridClearances == {0, Fine(1), Fine(32), Fine(48)}

GridRequest(g, side, clearance, u, method, vertical, bottom, offset) ==
  [gridUnits |-> g, sideThickness |-> side, clearancePerSide |-> clearance,
   binUnits |-> u, construction |-> method, verticalClearance |-> vertical,
   bottomThickness |-> bottom, dadoGrooveOffset |-> offset]

WidthRequests ==
  {GridRequest(g, side, clearance, 4, "dado", Fine(48), Fine(16), Fine(24)) :
     g \in 1..MaxGrid, side \in GridThicknesses, clearance \in GridClearances}

HeightRequests ==
  {GridRequest(7, Fine(30), Fine(32), u, method, vertical, bottom, offset) :
     u \in 1..MAX_BIN_UNITS, method \in ConstructionMethods,
     vertical \in GridClearances, bottom \in GridThicknesses,
     offset \in {0, Fine(24)}}

GridInit ==
  /\ NonGridIdle
  /\ gridIn \in WidthRequests \cup HeightRequests
  /\ gridOut = <<>>
  /\ gpc = "width"

\* The opening width for the requested grid units.
WidthForGridUnits ==
  /\ gpc = "width"
  /\ gridOut' = [openingWidth |->
                   OpeningWidthForGridUnits(gridIn.gridUnits, gridIn.sideThickness,
                                            gridIn.clearancePerSide)]
  /\ gpc' = "height"
  /\ UNCHANGED <<nonGridVars, gridIn>>

\* The opening height for the requested bin units.
HeightForBinUnits ==
  /\ gpc = "height"
  /\ gridOut' = [openingWidth |-> gridOut.openingWidth,
                 openingHeight |->
                   OpeningHeightForBinUnits(gridIn.binUnits, gridIn.construction,
                                            gridIn.verticalClearance,
                                            gridIn.bottomThickness,
                                            gridIn.dadoGrooveOffset)]
  /\ gpc' = "done"
  /\ UNCHANGED <<nonGridVars, gridIn>>

GridNext == WidthForGridUnits \/ HeightForBinUnits

GridSpec == GridInit /\ [][GridNext]_vars

\* ------------------------------------------------------------ grid claims
\* The interior a drawer box gets out of the computed openings: the width
\* between the sides, and the height by the method's interior-height formula.
RecoveredWidth ==
  gridOut.openingWidth - 2 * gridIn.clearancePerSide - 2 * gridIn.sideThickness

RecoveredHeight ==
  GetConstructionStrategy(
    gridIn.construction,
    [openingHeight |-> gridOut.openingHeight,
     verticalClearance |-> gridIn.verticalClearance,
     boxOuterWidth |-> gridOut.openingWidth - 2 * gridIn.clearancePerSide,
     boxOuterDepth |-> 0,
     sideThickness |-> gridIn.sideThickness,
     frontBackThickness |-> 0,
     bottomThickness |-> gridIn.bottomThickness,
     dadoGrooveDepth |-> 0,
     dadoGrooveOffset |-> gridIn.dadoGrooveOffset]).usableInteriorHeight

\* C22: the grid round trip never under-sizes. The interior width recovered
\* from openingWidthForGridUnits holds at least the requested grid units of
\* 42 mm, and the usable interior height recovered from
\* openingHeightForBinUnits by the method's formula is at least 7u + 4 mm,
\* so that re-decomposition yields at least u, for u in 1..12.
C22_GridRoundTrip ==
  gpc = "done" =>
    /\ ToMm(RecoveredWidth, "inches") >= gridIn.gridUnits * GRID_UNIT_MM * MmScale
    /\ GridfinityGridUnits(ToMm(RecoveredWidth, "inches")) >= gridIn.gridUnits
    /\ ToMm(RecoveredHeight, "inches")
         >= GridfinityBinHeightMm(gridIn.binUnits) * MmScale
    /\ GridfinityMaxBinUnits(ToMm(RecoveredHeight, "inches")) >= gridIn.binUnits

\* A request with 15/32 sides whose openings were rounded up: the recovered
\* interior is larger than asked for, by less than 1/8 each way.
C22_Witness ==
  /\ gpc = "done"
  /\ gridIn.sideThickness = Fine(30)
  /\ gridIn.construction = "dado"
  /\ ToMm(RecoveredWidth, "inches") > gridIn.gridUnits * GRID_UNIT_MM * MmScale
  /\ ToMm(RecoveredWidth - Inch \div 8, "inches")
       < gridIn.gridUnits * GRID_UNIT_MM * MmScale
  /\ ToMm(RecoveredHeight, "inches")
       > GridfinityBinHeightMm(gridIn.binUnits) * MmScale
  /\ ToMm(RecoveredHeight - Inch \div 8, "inches")
       < GridfinityBinHeightMm(gridIn.binUnits) * MmScale

\* ------------------------------------------- fitting and splitting alone
\* findBestFit on any short list of free rectangles, then guillotineSplit
\* on the rectangle it chose, as fillSheet calls them.
\* At most MaxRects free rectangles, of sides 1..MaxSheet; rectangle i lies
\* at (i - 1, 2 (i - 1)).  Piece sides are 1..MaxDim + 1.
MaxRects == 2

RectShapes == {<<w, h>> : w \in 1..MaxSheet, h \in 1..MaxSheet}

RectLists ==
  UNION {[1..n -> RectShapes] : n \in 0..MaxRects}

FreeRectsOf(shapes) ==
  [i \in DOMAIN shapes |-> Rect(i - 1, 2 * (i - 1), shapes[i][1], shapes[i][2])]

FitInit ==
  /\ NonFitIdle
  /\ fitIn \in
       {[pieceW |-> w, pieceH |-> h, kerf |-> k,
         freeRects |-> FreeRectsOf(shapes), allowRotation |-> rot] :
          w \in 1..(MaxDim + 1), h \in 1..(MaxDim + 1), k \in {0, MaxKerf},
          shapes \in RectLists, rot \in BOOLEAN}
  /\ fitOut = <<>>
  /\ fpc = "fit"

\* const fit = findBestFit(...); if (!fit) the piece is deferred.
BestFit ==
  /\ fpc = "fit"
  /\ LET fit == FindBestFit(fitIn.pieceW, fitIn.pieceH, fitIn.kerf,
                            fitIn.freeRects, fitIn.allowRotation)
     IN /\ fitOut' = [fit |-> fit]
        /\ fpc' = IF fit = Null THEN "deferred" ELSE "split"
  /\ UNCHANGED <<nonFitVars, fitIn>>

\* The placed size and guillotineSplit of the chosen rectangle.
SplitChosen ==
  /\ fpc = "split"
  /\ LET fit == fitOut.fit
         rect == fitIn.freeRects[fit.rectIndex]
         placedW == IF fit.rotated THEN fitIn.pieceH ELSE fitIn.pieceW
         placedH == IF fit.rotated THEN fitIn.pieceW ELSE fitIn.pieceH
     IN fitOut' = [fit |-> fit, rect |-> rect,
                   placedW |-> placedW, placedH |-> placedH,
                   split |-> GuillotineSplit(rect, placedW, placedH, fitIn.kerf)]
  /\ fpc' = "placed"
  /\ UNCHANGED <<nonFitVars, fitIn>>

FitNext == BestFit \/ SplitChosen

FitSpec == FitInit /\ [][FitNext]_vars

\* ------------------------------------------------------------- fit claims
\* The candidates of a call: a free-rectangle index and an orientation in
\* which the piece fits the rectangle.
FitCandidates ==
  {c \in (DOMAIN fitIn.freeRects) \X BOOLEAN :
     LET rect == fitIn.freeRects[c[1]]
     IN IF c[2]
          THEN /\ fitIn.allowRotation
               /\ fitIn.pieceH <= rect.width /\ fitIn.pieceW <= rect.height
          ELSE fitIn.pieceW <= rect.width /\ fitIn.pieceH <= rect.height}

LeftoverOf(c) ==
  fitIn.freeRects[c[1]].width * fitIn.freeRects[c[1]].height
    - fitIn.pieceW * fitIn.pieceH

\* Candidate c is evaluated before candidate d.
EvaluatedBefore(c, d) == c[1] < d[1] \/ (c[1] = d[1] /\ ~c[2] /\ d[2])

\* C26: findBestFit returns null if and only if the piece fits no free
\* rectangle in any allowed orientation; otherwise it returns a candidate in
\* which the piece fits, of minimal leftover area among all fitting
\* candidates, and among those of minimal leftover the one evaluated first:
\* lowest rectangle index, non-rotated before rotated.
C26_BestAreaFit ==
  fpc \in {"deferred", "split", "placed"} =>
    LET fit == fitOut.fit
        chosen == <<fit.rectIndex, fit.rotated>>
    IN /\ fit = Null <=> FitCandidates = {}
       /\ fit # Null =>
            /\ chosen \in FitCandidates
            /\ fit.leftover = LeftoverOf(chosen)
            /\ \A c \in FitCandidates :
                 /\ LeftoverOf(c) >= fit.leftover
                 /\ (LeftoverOf(c) = fit.leftover /\ c # chosen) =>
                      EvaluatedBefore(chosen, c)

\* A call with ties: rectangle 1 fits in both orientations and rectangle 2
\* leaves the same leftover; rectangle 1, not rotated, is returned.
C26_Witness ==
  /\ fpc = "split"
  /\ fitOut.fit.rectIndex = 1
  /\ ~fitOut.fit.rotated
  /\ \E c \in FitCandidates :
       c[1] = 2 /\ LeftoverOf(c) = fitOut.fit.leftover
  /\ <<1, TRUE>> \in FitCandidates

\* Geometry of the remainders.
Inside(r, outer) ==
  /\ outer.x <= r.x /\ r.x + r.width <= outer.x + outer.width
  /\ outer.y <= r.y /\ r.y + r.height <= outer.y + outer.height

DisjointRects(a, b) ==
  \/ a.x + a.width <= b.x \/ b.x + b.width <= a.x
  \/ a.y + a.height <= b.y \/ b.y + b.height <= a.y

AreaOfRect(r) == r.width * r.height

LargerArea(rs) == Max(AreaOfRect(rs[1]), AreaOfRect(rs[2]))

\* C27: with rightW = R.width - w - k and bottomH = R.height - h - k,
\* guillotineSplit returns no rectangle when both are <= 0, exactly one
\* full-span rectangle when exactly one is > 0, and exactly two when both
\* are > 0, chosen between the horizontal and the vertical split so that the
\* area of the larger of the two is maximal; every returned rectangle has
\* positive width and height, lies inside R, and the returned rectangles are
\* disjoint from each other and from the placed footprint.
C27_GuillotineSplit ==
  fpc = "placed" =>
    LET R == fitOut.rect
        w == fitOut.placedW
        h == fitOut.placedH
        k == fitIn.kerf
        split == fitOut.split
        rightW == R.width - w - k
        bottomH == R.height - h - k
        footprint == Rect(R.x, R.y, w, h)
        right == Rect(R.x + w + k, R.y, rightW, R.height)
        bottom == Rect(R.x, R.y + h + k, R.width, bottomH)
        horizontal == <<bottom, Rect(R.x + w + k, R.y, rightW, h)>>
        vertical == <<right, Rect(R.x, R.y + h + k, w, bottomH)>>
    IN /\ (rightW <= 0 /\ bottomH <= 0) => split = <<>>
       /\ (rightW > 0 /\ bottomH <= 0) => split = <<right>>
       /\ (rightW <= 0 /\ bottomH > 0) => split = <<bottom>>
       /\ (rightW > 0 /\ bottomH > 0) =>
            /\ Len(split) = 2
            /\ split \in {horizontal, vertical}
            /\ LargerArea(split) >= LargerArea(horizontal)
            /\ LargerArea(split) >= LargerArea(vertical)
       /\ \A i \in DOMAIN split :
            /\ split[i].width > 0 /\ split[i].height > 0
            /\ Inside(split[i], R)
            /\ DisjointRects(split[i], footprint)
            /\ \A j \in DOMAIN split : i # j => DisjointRects(split[i], split[j])

\* A split in which both remainders exist and the vertical split was taken
\* because its larger rectangle is the larger one.
C27_Witness ==
  /\ fpc = "placed"
  /\ Len(fitOut.split) = 2
  /\ fitOut.split[1].height = fitOut.rect.height
  /\ fitOut.split[1].width < fitOut.rect.width
  /\ AreaOfRect(fitOut.split[1]) > AreaOfRect(fitOut.split[2])

\* ------------------------------------------------------ jig panel segments
\* computeJigPanelSegments.  The function is the same in any unit of length
\* as long as its two constants are in that unit; lengths here are exact
\* integers in units of 1/96 mm, fine enough for the halves and the even
\* splits of panels of up to four segments.
Mm(x) == x * 96

\* 240 mm and 2 mm.
MAX_SEGMENT_HEIGHT == 23040

CUT_MARGIN == 192

\* 45 mm.
SLIDE_PROFILE_HEIGHT == 4320

\* At most MaxGaps slide gaps on a face of a panel.
MaxGaps == 2

Min(a, b) == IF a <= b THEN a ELSE b

Zone(type, startY, height) == [type |-> type, startY |-> startY, height |-> height]

Range(start, end) == [start |-> start, end |-> end]

RECURSIVE ClipZones(_, _, _)
ClipZones(zones, segStartY, segEndY) ==
  IF zones = <<>> THEN <<>>
  ELSE
    LET zone == Head(zones)
        zoneEnd == zone.startY + zone.height
        clippedStart == Max(zone.startY, segStartY)
        clippedEnd == Min(zoneEnd, segEndY)
    IN (IF zoneEnd <= segStartY \/ zone.startY >= segEndY THEN <<>>
        ELSE <<Zone(zone.type, clippedStart - segStartY,
                    clippedEnd - clippedStart)>>)
       \o ClipZones(Tail(zones), segStartY, segEndY)

RECURSIVE GapRangesOf(_)
GapRangesOf(zones) ==
  IF zones = <<>> THEN <<>>
  ELSE (IF Head(zones).type = "gap"
          THEN <<Range(Head(zones).startY,
                       Head(zones).startY + Head(zones).height)>>
          ELSE <<>>)
       \o GapRangesOf(Tail(zones))

GapRanges(zones, panelHeight) ==
  IF Len(zones) = 0 THEN <<Range(0, panelHeight)>> ELSE GapRangesOf(zones)

\* The two-pointer intersection of two sorted range lists.
RECURSIVE Intersect(_, _, _, _)
Intersect(aGaps, bGaps, ai, bi) ==
  IF ai > Len(aGaps) \/ bi > Len(bGaps) THEN <<>>
  ELSE
    LET a == aGaps[ai]
        b == bGaps[bi]
        lo == Max(a.start, b.start)
        hi == Min(a.end, b.end)
    IN (IF hi > lo THEN <<Range(lo, hi)>> ELSE <<>>)
       \o (IF a.end < b.end THEN Intersect(aGaps, bGaps, ai + 1, bi)
                            ELSE Intersect(aGaps, bGaps, ai, bi + 1))

RECURSIVE Shrink(_)
Shrink(ranges) ==
  IF ranges = <<>> THEN <<>>
  ELSE
    LET r == Range(Head(ranges).start + CUT_MARGIN, Head(ranges).end - CUT_MARGIN)
    IN (IF r.end > r.start THEN <<r>> ELSE <<>>) \o Shrink(Tail(ranges))

FindSafeCutRanges(sideAZones, sideBZones, panelHeight) ==
  Shrink(Intersect(GapRanges(sideAZones, panelHeight),
                   GapRanges(sideBZones, panelHeight), 1, 1))

Abs(x) == IF x < 0 THEN -x ELSE x

\* Mutant: a safe range is taken whole, not clipped to [minCut, maxCut].
RECURSIVE BestCutFrom_UnclippedMut(_, _, _, _, _, _)
BestCutFrom_UnclippedMut(ranges, i, best, minCut, maxCut, idealCut) ==
  IF i > Len(ranges) THEN best
  ELSE
    LET lo == ranges[i].start
        hi == ranges[i].end
        center == (lo + hi) \div 2
        dist == Abs(center - idealCut)
    IN IF hi <= lo THEN
         BestCutFrom_UnclippedMut(ranges, i + 1, best, minCut, maxCut, idealCut)
       ELSE IF best = <<>> \/ dist < best[1].dist THEN
         BestCutFrom_UnclippedMut(ranges, i + 1,
                                  <<[cut |-> center, dist |-> dist]>>,
                                  minCut, maxCut, idealCut)
       ELSE
         BestCutFrom_UnclippedMut(ranges, i + 1, best, minCut, maxCut, idealCut)

\* The inner loop over the safe ranges: the centre of the clipped range
\* closest to the ideal cut, the first one of several; <<>> for null.
RECURSIVE BestCutFrom(_, _, _, _, _, _)
BestCutFrom(ranges, i, best, minCut, maxCut, idealCut) ==
  IF i > Len(ranges) THEN best
  ELSE
    LET lo == Max(ranges[i].start, minCut)
        hi == Min(ranges[i].end, maxCut)
        center == (lo + hi) \div 2
        dist == Abs(center - idealCut)
    IN IF hi <= lo THEN
         BestCutFrom(ranges, i + 1, best, minCut, maxCut, idealCut)
       ELSE IF best = <<>> \/ dist < best[1].dist THEN
         BestCutFrom(ranges, i + 1, <<[cut |-> center, dist |-> dist]>>,
                     minCut, maxCut, idealCut)
       ELSE BestCutFrom(ranges, i + 1, best, minCut, maxCut, idealCut)

\* One iteration of the greedy loop: the next cut above cursor_.
NextCut(panelHeight, cursor_, ranges) ==
  LET remaining_ == panelHeight - cursor_
      neededCuts == CeilDiv(remaining_, MAX_SEGMENT_HEIGHT) - 1
      idealSegHeight == remaining_ \div (neededCuts + 1)
      idealCut == cursor_ + idealSegHeight
      maxCut == cursor_ + MAX_SEGMENT_HEIGHT
      minCut == panelHeight - neededCuts * MAX_SEGMENT_HEIGHT
      best == BestCutFrom(ranges, 1, <<>>, minCut, maxCut, idealCut)
  IN IF best # <<>> THEN best[1].cut ELSE idealCut

Segment(i, startY, endY, sideAZones, sideBZones) ==
  [segmentIndex |-> i, startY |-> startY, height |-> endY - startY,
   sideAZones |-> ClipZones(sideAZones, startY, endY),
   sideBZones |-> ClipZones(sideBZones, startY, endY)]

BuildSegments(boundaries, sideAZones, sideBZones) ==
  [i \in 1..(Len(boundaries) - 1) |->
     Segment(i - 1, boundaries[i], boundaries[i + 1], sideAZones, sideBZones)]

\* The zones of a panel face with slides at the given heights, bottom to
\* top, as computeJigZones lays them out.
RECURSIVE ZonesFrom(_, _, _)
ZonesFrom(slides, cursor_, effectiveHeight) ==
  IF slides = <<>>
    THEN IF cursor_ < effectiveHeight
           THEN <<Zone("spacer", cursor_, effectiveHeight - cursor_)>>
           ELSE <<>>
  ELSE
    LET slideBottom == Head(slides)
        slideHeight == Min(SLIDE_PROFILE_HEIGHT, effectiveHeight - slideBottom)
    IN (IF slideBottom > cursor_
          THEN <<Zone("spacer", cursor_, slideBottom - cursor_)>> ELSE <<>>)
       \o (IF slideHeight > 0
             THEN <<Zone("gap", slideBottom, slideHeight)>> ELSE <<>>)
       \o ZonesFrom(Tail(slides), slideBottom + slideHeight, effectiveHeight)

\* Panel heights around one, two and three bed lengths, and slide heights
\* that put gaps at, near and away from the ideal cuts.
PanelHeights ==
  {Mm(-10), 0, Mm(100), Mm(240), Mm(241), Mm(300), Mm(480), Mm(481),
   Mm(500), Mm(700), Mm(720)}

SlideBottoms == <<0, Mm(100), Mm(130), Mm(230), Mm(300), Mm(470)>>

\* Increasing lists of at most MaxGaps slide heights.
SlideLists ==
  {<<>>}
    \cup UNION {{[k \in 1..n |-> SlideBottoms[f[k]]] :
                   f \in {g \in [1..n -> DOMAIN SlideBottoms] :
                            \A k \in 1..(n - 1) : g[k] < g[k + 1]}} :
                n \in 1..MaxGaps}

JigInit ==
  /\ NonJigIdle
  /\ \E h \in PanelHeights, a \in SlideLists, b \in SlideLists :
       jigIn = [panelHeight |-> h,
                sideAZones |-> IF a = <<>> THEN <<>> ELSE ZonesFrom(a, 0, h),
                sideBZones |-> IF b = <<>> THEN <<>> ELSE ZonesFrom(b, 0, h)]
  /\ jpc = "start"
  /\ safeRanges = <<>>
  /\ cuts = <<>>
  /\ cursor = 0
  /\ segments = <<>>

\* The early returns, and findSafeCutRanges for a panel that needs cuts.
JigStart ==
  /\ jpc = "start"
  /\ IF jigIn.panelHeight <= 0
       THEN /\ segments' = <<>>
            /\ jpc' = "done"
            /\ UNCHANGED safeRanges
     ELSE IF jigIn.panelHeight <= MAX_SEGMENT_HEIGHT
       THEN /\ segments' = <<Segment(0, 0, jigIn.panelHeight,
                                     jigIn.sideAZones, jigIn.sideBZones)>>
            /\ jpc' = "done"
            /\ UNCHANGED safeRanges
     ELSE /\ safeRanges' = FindSafeCutRanges(jigIn.sideAZones, jigIn.sideBZones,
                                             jigIn.panelHeight)
          /\ jpc' = "loop"
          /\ UNCHANGED segments
  /\ UNCHANGED <<nonJigVars, jigIn, cuts, cursor>>

\* One pass of the greedy loop that does not break.
JigCut ==
  /\ jpc = "loop"
  /\ jigIn.panelHeight - cursor > MAX_SEGMENT_HEIGHT
  /\ LET cut == NextCut(jigIn.panelHeight, cursor, safeRanges)
     IN /\ cuts' = Append(cuts, cut)
        /\ cursor' = cut
  /\ UNCHANGED <<nonJigVars, jigIn, jpc, safeRanges, segments>>

\* The last segment fits: break, and build the segments.
JigBuild ==
  /\ jpc = "loop"
  /\ jigIn.panelHeight - cursor <= MAX_SEGMENT_HEIGHT
  /\ segments' = BuildSegments(<<0>> \o cuts \o <<jigIn.panelHeight>>,
                               jigIn.sideAZones, jigIn.sideBZones)
  /\ jpc' = "done"
  /\ UNCHANGED <<nonJigVars, jigIn, safeRanges, cuts, cursor>>

JigNext == JigStart \/ JigCut \/ JigBuild

JigSpec == JigInit /\ [][JigNext]_vars

\* ------------------------------------------------------------- jig claims
\* A cut position lies in a safe range.
InSafeRange(c) ==
  \E k \in DOMAIN safeRanges : safeRanges[k].start <= c /\ c <= safeRanges[k].end

\* C30: computeJigPanelSegments terminates (the loop makes fewer cuts than
\* the panel has bed lengths, and every cut is above the one before and
\* below the panel top) and, when H > 0, returns segments that fit the bed
\* and tile the panel: segment 0 starts at 0, each starts where the one
\* before ends, the last ends at H, indices are 0, 1, 2, ..., and every
\* height is > 0 and <= 240 mm, for cuts in safe ranges and for even
\* splits; when H <= 0 it returns no segments.
C30_SegmentsTilePanel ==
  LET H == jigIn.panelHeight
  IN /\ jpc = "loop" =>
          /\ Len(cuts) < CeilDiv(H, MAX_SEGMENT_HEIGHT)
          /\ 0 <= cursor /\ cursor < H
          /\ \A k \in DOMAIN cuts :
               (IF k = 1 THEN 0 ELSE cuts[k - 1]) < cuts[k]
     /\ jpc = "done" =>
          /\ H <= 0 => segments = <<>>
          /\ H > 0 =>
               /\ Len(segments) >= 1
               /\ segments[1].startY = 0
               /\ segments[Len(segments)].startY
                    + segments[Len(segments)].height = H
               /\ \A i \in DOMAIN segments :
                    /\ segments[i].segmentIndex = i - 1
                    /\ segments[i].height > 0
                    /\ segments[i].height <= MAX_SEGMENT_HEIGHT
                    /\ i > 1 =>
                         segments[i].startY
                           = segments[i - 1].startY + segments[i - 1].height

\* A panel of three segments whose first cut is the centre of a safe range
\* and whose second cut is the even split, no safe range being in reach.
C30_Witness ==
  /\ jpc = "done"
  /\ Len(segments) = 3
  /\ InSafeRange(cuts[1])
  /\ ~InSafeRange(cuts[2])
  /\ segments[1].height # segments[2].height

\* ------------------------------------------------------------------ store
\* The zustand store: store.config and store.savedConfigs.  Lengths are in
\* fine units of the configuration's own unit, so that a conversion of an
\* inch value to centimetres and back is exact.  Rows and columns are
\* addressed by position: their ids are fresh random UUIDs, which no two
\* of them share.

\* At most MaxOps store actions are followed.
MaxOps == 2

Units == {"inches", "cm"}

\* calculations/units: a linear scale with 1 inch = 2.54 cm, the identity
\* when the units match.
Convert(value, from, to) ==
  IF from = to THEN value
  ELSE IF to = "cm" THEN (value * 127) \div 50
  ELSE (value * 50) \div 127

\* findThickness: an entry of WOOD_THICKNESSES, in fine units.
FindThickness(wood) == Wood(wood.id, Fine(wood.actual))

ComputeOpeningWidth(gridUnits, config_) ==
  OpeningWidthForGridUnits(gridUnits, config_.woodAssignments.drawerSides.actual,
                           config_.slideSpec.clearancePerSide)

ComputeOpeningHeight(binUnits, construction, config_) ==
  OpeningHeightForBinUnits(binUnits, construction,
                           config_.drawerVerticalClearance,
                           config_.woodAssignments.drawerBottom.actual,
                           config_.dadoGrooveOffset)

\* A row whose heightMode is "direct".
IsDirect(row) == row.heightMode = <<"direct">>

RecomputeFromGridfinity(config_) ==
  [config_ EXCEPT
     !.defaultRowHeight =
       ComputeOpeningHeight(config_.defaultBinHeightUnits,
                            config_.defaultConstruction, config_),
     !.columns =
       [c \in DOMAIN config_.columns |->
          LET col == config_.columns[c]
          IN [col EXCEPT
                !.openingWidth = ComputeOpeningWidth(col.gridWidthUnits, config_),
                !.rows =
                  [r \in DOMAIN col.rows |->
                     LET row == col.rows[r]
                     IN IF IsDirect(row) THEN row
                        ELSE [row EXCEPT
                                !.openingHeight =
                                  ComputeOpeningHeight(row.binHeightUnits,
                                                       row.construction,
                                                       config_)]]]]]

\* heightMode and woodOverride are <<>> while undefined.  directGiven is
\* not a field of the program: it records the height last given to
\* setRowDirectHeight for a row that is still direct.
MakeRow(construction, binHeightUnits, config_) ==
  [openingHeight |-> ComputeOpeningHeight(binHeightUnits, construction, config_),
   binHeightUnits |-> binHeightUnits,
   construction |-> construction,
   heightMode |-> <<>>,
   woodOverride |-> <<>>,
   directGiven |-> <<>>]

MakeColumn(gridWidthUnits, rowCount, construction, binHeightUnits, config_) ==
  [openingWidth |-> ComputeOpeningWidth(gridWidthUnits, config_),
   gridWidthUnits |-> gridWidthUnits,
   rows |-> [r \in 1..rowCount |->
               MakeRow(construction, binHeightUnits, config_)]]

DEFAULT_GRID_WIDTH_UNITS == 7

DEFAULT_BIN_HEIGHT_UNITS == 4

CreateDefaultConfig ==
  LET baseConfig ==
        [name |-> "Untitled Chest",
         unit |-> "inches",
         constraints |-> <<>>,
         columns |-> <<>>,
         drawerStyle |-> "overlay",
         defaultConstruction |-> "dado",
         defaultRowHeight |-> 0,
         defaultGridWidthUnits |-> DEFAULT_GRID_WIDTH_UNITS,
         defaultBinHeightUnits |-> DEFAULT_BIN_HEIGHT_UNITS,
         woodAssignments |->
           [carcassTopBottom |-> FindThickness(Ply34),
            carcassSides |-> FindThickness(Ply34),
            carcassDividers |-> FindThickness(Ply34),
            carcassBack |-> FindThickness(Ply14),
            horizontalRails |-> FindThickness(Ply34),
            drawerSides |-> FindThickness(Ply12),
            drawerFrontBack |-> FindThickness(Ply12),
            drawerBottom |-> FindThickness(Ply14),
            drawerFace |-> FindThickness(Ply34)],
         advancedWoodMode |-> FALSE,
         slideSpec |-> [length |-> 18 * Inch,
                        clearancePerSide |-> Fine(32),
                        minMountingHeight |-> Fine(112)],
         horizontalRails |-> [enabled |-> FALSE,
                              thickness |-> FindThickness(Ply34),
                              width |-> 3 * Inch],
         kerfWidth |-> Fine(8),
         dadoGrooveDepth |-> Fine(16),
         dadoGrooveOffset |-> Fine(24),
         overlayOverlap |-> Fine(24),
         insetRevealGap |-> Fine(8),
         drawerVerticalClearance |-> Fine(16),
         drawerBackClearance |-> Fine(32)]
      withHeight ==
        [baseConfig EXCEPT
           !.defaultRowHeight =
             ComputeOpeningHeight(DEFAULT_BIN_HEIGHT_UNITS,
                                  baseConfig.defaultConstruction, baseConfig)]
  IN [withHeight EXCEPT
        !.columns =
          <<MakeColumn(DEFAULT_GRID_WIDTH_UNITS, 3,
                       withHeight.defaultConstruction,
                       DEFAULT_BIN_HEIGHT_UNITS, withHeight)>>]

\* Thicknesses (woodAssignments, overrides, rail thickness) are not converted.
ConvertConfigValues(config_, to) ==
  IF config_.unit = to THEN config_
  ELSE
    LET c(v) == Convert(v, config_.unit, to)
    IN [config_ EXCEPT
          !.unit = to,
          !.constraints =
            IF config_.constraints = <<>> THEN <<>>
            ELSE <<Dims(c(config_.constraints[1].width),
                        c(config_.constraints[1].height),
                        c(config_.constraints[1].depth))>>,
          !.columns =
            [k \in DOMAIN config_.columns |->
               [config_.columns[k] EXCEPT
                  !.openingWidth = c(@),
                  !.rows = [r \in DOMAIN @ |->
                              [@[r] EXCEPT
                                 !.openingHeight = c(@),
                                 !.directGiven =
                                   IF @ = <<>> THEN <<>> ELSE <<c(@[1])>>]]]],
          !.defaultRowHeight = c(@),
          !.slideSpec = [length |-> c(@.length),
                         clearancePerSide |-> c(@.clearancePerSide),
                         minMountingHeight |-> c(@.minMountingHeight)],
          !.horizontalRails = [@ EXCEPT !.width = c(@)],
          !.kerfWidth = c(@),
          !.dadoGrooveDepth = c(@),
          !.dadoGrooveOffset = c(@),
          !.overlayOverlap = c(@),
          !.insetRevealGap = c(@),
          !.drawerVerticalClearance = c(@),
          !.drawerBackClearance = c(@)]

\* columns.map(col => col.id === columnId ? updater(col) : col), and the
\* same for the rows of a column; updated is what the updater makes of the
\* one match, and no entry changes when there is no match.
UpdateColumn(columns, c, updated) ==
  [k \in DOMAIN columns |-> IF k = c THEN updated ELSE columns[k]]

UpdateRow(rows, r, updated) ==
  [k \in DOMAIN rows |-> IF k = r THEN updated ELSE rows[k]]

\* A row of a column of the configuration replaced by updatedRow.
WithRow(config_, c, r, updatedRow) ==
  [config_ EXCEPT
     !.columns =
       UpdateColumn(@, c, [@[c] EXCEPT !.rows = UpdateRow(@, r, updatedRow)])]

\* Names a caller can pass, and those of them every object inherits a
\* property for from Object.prototype ("constructor" here; "toString" and
\* others behave the same).
ConfigNames == {"a", "b", "constructor"}

InheritedNames == {"constructor"}

\* savedConfigs is kept as a function on ConfigNames that is <<>> where the
\* object has no own entry.  savedConfigs[name]: the own entry if there is
\* one, else the inherited property, else undefined (<<>>).
SavedLookup(savedConfigs, name) ==
  IF savedConfigs[name] # <<>> THEN savedConfigs[name]
  ELSE IF name \in InheritedNames THEN <<[inherited |-> name]>>
  ELSE <<>>

\* The value is a configuration object, not a value found on the prototype.
IsConfig(config_) == "columns" \in DOMAIN config_

\* { ...config, name }: own enumerable properties only, of which a function
\* found on the prototype has none.
WithName(config_, name) ==
  IF IsConfig(config_) THEN [config_ EXCEPT !.name = name] ELSE [name |-> name]

\* Parameters of the store actions.
StoreGridUnits == {3}

StoreBinUnits == {2}

DirectHeights == {Fine(192)}

StoreClearances == {Fine(48)}

StoreThicknesses == {FindThickness(Hw34)}

AssignmentKeys == {"drawerSides", "drawerBottom", "drawerFace"}

StoreOverrides == {Override(<<FindThickness(Hw34)>>, <<>>, <<>>, <<>>)}

StoreConstraints == {<<Dims(20 * Inch, 30 * Inch, 18 * Inch)>>}

\* What importConfig may be handed: here a configuration without columns.
ImportedConfigs ==
  {[CreateDefaultConfig EXCEPT !.name = "Imported", !.columns = <<>>]}

Op(name, args) == [op |-> name, args |-> args]

StoreInit ==
  /\ NonStoreIdle
  /\ store = [config |-> CreateDefaultConfig,
              savedConfigs |-> [n \in ConfigNames |-> <<>>]]
  /\ lastOp = Op("create", <<>>)
  /\ before = store
  /\ ops = 0
  /\ imported = FALSE

\* set(...) by one store action: lastOp and before record the action and
\* the state it was applied to.
Do(op, nextStore) ==
  /\ ops < MaxOps
  /\ store' = nextStore
  /\ lastOp' = op
  /\ before' = store
  /\ ops' = ops + 1
  /\ UNCHANGED nonStoreVars

\* Mutant: setting the configuration clears the saved configurations.
WithConfig_ClearSavedMut(nextConfig) ==
  [config |-> nextConfig, savedConfigs |-> [n \in ConfigNames |-> <<>>]]

\* set({ config }): the saved configurations stay as they are.
WithConfig(nextConfig) == [store EXCEPT !.config = nextConfig]

\* The edits of the configuration are followed on configuration objects
\* only: on a value loaded from the prototype they throw or build an object
\* that is not a configuration.
Editable == IsConfig(store.config)

SetUnit ==
  \E unit \in Units :
    /\ Editable
    /\ Do(Op("setUnit", <<unit>>),
          WithConfig(ConvertConfigValues(store.config, unit)))
    /\ UNCHANGED imported

SetConstraints ==
  \E constraints \in StoreConstraints :
    /\ Editable
    /\ Do(Op("setConstraints", <<constraints>>),
          WithConfig([store.config EXCEPT !.constraints = constraints]))
    /\ UNCHANGED imported

SetDrawerStyle ==
  \E style \in {"inset"} :
    /\ Editable
    /\ Do(Op("setDrawerStyle", <<style>>),
          WithConfig([store.config EXCEPT !.drawerStyle = style]))
    /\ UNCHANGED imported

SetDefaultConstruction ==
  \E method \in ConstructionMethods :
    /\ Editable
    /\ Do(Op("setDefaultConstruction", <<method>>),
          WithConfig(RecomputeFromGridfinity(
           [store.config EXCEPT
              !.defaultConstruction = method,
              !.columns = [c \in DOMAIN @ |->
                             [@[c] EXCEPT
                                !.rows = [r \in DOMAIN @ |->
                                            [@[r] EXCEPT
                                               !.construction = method]]]]])))
    /\ UNCHANGED imported

SetKerfWidth ==
  \E kerf \in {Fine(6)} :
    /\ Editable
    /\ Do(Op("setKerfWidth", <<kerf>>),
          WithConfig([store.config EXCEPT !.kerfWidth = kerf]))
    /\ UNCHANGED imported

SetAdvancedWoodMode ==
  \E advanced \in BOOLEAN :
    /\ Editable
    /\ Do(Op("setAdvancedWoodMode", <<advanced>>),
          WithConfig([store.config EXCEPT !.advancedWoodMode = advanced]))
    /\ UNCHANGED imported

SetColumnCount ==
  \E count \in 0..MaxCols :
    LET config_ == store.config
        current == config_.columns
        lastCol == current[Len(current)]
        newColumns ==
          [k \in 1..(count - Len(current)) |->
             MakeColumn(lastCol.gridWidthUnits, Len(lastCol.rows),
                        config_.defaultConstruction,
                        config_.defaultBinHeightUnits, config_)]
    IN /\ Editable
       /\ Do(Op("setColumnCount", <<count>>),
             WithConfig(
               IF count = Len(current) \/ count < 1 THEN config_
               ELSE IF count < Len(current)
                 THEN [config_ EXCEPT !.columns = SubSeq(current, 1, count)]
               ELSE IF Len(current) = 0 THEN config_
               ELSE [config_ EXCEPT !.columns = current \o newColumns]))
       /\ UNCHANGED imported

SetColumnGridWidth ==
  \E c \in 1..MaxCols, gridUnits \in StoreGridUnits :
    LET OnColumn(col) ==
          [col EXCEPT
             !.gridWidthUnits = gridUnits,
             !.openingWidth = ComputeOpeningWidth(gridUnits, store.config)]
    IN /\ Editable
       /\ Do(Op("setColumnGridWidth", <<c, gridUnits>>),
             WithConfig([store.config EXCEPT
                           !.columns = UpdateColumn(@, c, OnColumn(@[c]))]))
       /\ UNCHANGED imported

SetAllColumnGridWidths ==
  \E gridUnits \in StoreGridUnits :
    /\ Editable
    /\ Do(Op("setAllColumnGridWidths", <<gridUnits>>),
          WithConfig([store.config EXCEPT
            !.defaultGridWidthUnits = gridUnits,
            !.columns =
              [c \in DOMAIN @ |->
                 [@[c] EXCEPT
                    !.gridWidthUnits = gridUnits,
                    !.openingWidth =
                      ComputeOpeningWidth(gridUnits, store.config)]]]))
    /\ UNCHANGED imported

SetRowCount ==
  \E c \in 1..MaxCols, count \in 0..(MaxRows + 2) :
    LET config_ == store.config
        OnColumn(col) ==
          IF count = Len(col.rows) \/ count < 1 THEN col
          ELSE IF count < Len(col.rows)
            THEN [col EXCEPT !.rows = SubSeq(col.rows, 1, count)]
          ELSE [col EXCEPT
                  !.rows =
                    col.rows
                      \o [k \in 1..(count - Len(col.rows)) |->
                            MakeRow(config_.defaultConstruction,
                                    config_.defaultBinHeightUnits, config_)]]
    IN /\ Editable
       /\ Do(Op("setRowCount", <<c, count>>),
             WithConfig([config_ EXCEPT
                           !.columns = UpdateColumn(@, c, OnColumn(@[c]))]))
       /\ UNCHANGED imported

SetRowBinHeight ==
  \E c \in 1..MaxCols, r \in 1..MaxRows, binUnits \in StoreBinUnits :
    LET OnRow(row) ==
          [row EXCEPT
             !.heightMode = <<>>,
             !.directGiven = <<>>,
             !.binHeightUnits = binUnits,
             !.openingHeight =
               ComputeOpeningHeight(binUnits, row.construction, store.config)]
    IN /\ Editable
       /\ Do(Op("setRowBinHeight", <<c, r, binUnits>>),
             WithConfig(WithRow(store.config, c, r,
                           OnRow(store.config.columns[c].rows[r]))))
       /\ UNCHANGED imported

SetAllRowBinHeights ==
  \E binUnits \in StoreBinUnits :
    LET config_ == store.config
    IN /\ Editable
       /\ Do(Op("setAllRowBinHeights", <<binUnits>>),
             WithConfig([config_ EXCEPT
               !.defaultBinHeightUnits = binUnits,
               !.defaultRowHeight =
                 ComputeOpeningHeight(binUnits, config_.defaultConstruction,
                                      config_),
               !.columns =
                 [c \in DOMAIN @ |->
                    [@[c] EXCEPT
                       !.rows =
                         [r \in DOMAIN @ |->
                            [@[r] EXCEPT
                               !.heightMode = <<>>,
                               !.directGiven = <<>>,
                               !.binHeightUnits = binUnits,
                               !.openingHeight =
                                 ComputeOpeningHeight(
                                   binUnits,
                                   config_.columns[c].rows[r].construction,
                                   config_)]]]]]))
       /\ UNCHANGED imported

SetRowDirectHeight ==
  \E c \in 1..MaxCols, r \in 1..MaxRows, height \in DirectHeights :
    LET OnRow(row) ==
          [row EXCEPT
             !.heightMode = <<"direct">>,
             !.directGiven = <<height>>,
             !.openingHeight = height]
    IN /\ Editable
       /\ Do(Op("setRowDirectHeight", <<c, r, height>>),
             WithConfig(WithRow(store.config, c, r,
                           OnRow(store.config.columns[c].rows[r]))))
       /\ UNCHANGED imported

ResetRowToGridfinity ==
  \E c \in 1..MaxCols, r \in 1..MaxRows :
    LET OnRow(row) ==
          [row EXCEPT
             !.heightMode = <<>>,
             !.directGiven = <<>>,
             !.openingHeight =
               ComputeOpeningHeight(row.binHeightUnits, row.construction,
                                    store.config)]
    IN /\ Editable
       /\ Do(Op("resetRowToGridfinity", <<c, r>>),
             WithConfig(WithRow(store.config, c, r,
                           OnRow(store.config.columns[c].rows[r]))))
       /\ UNCHANGED imported

SetRowConstruction ==
  \E c \in 1..MaxCols, r \in 1..MaxRows, method \in ConstructionMethods :
    LET OnRow(row) ==
          [row EXCEPT
             !.construction = method,
             !.openingHeight =
               ComputeOpeningHeight(row.binHeightUnits, method, store.config)]
    IN /\ Editable
       /\ Do(Op("setRowConstruction", <<c, r, method>>),
             WithConfig(WithRow(store.config, c, r,
                           OnRow(store.config.columns[c].rows[r]))))
       /\ UNCHANGED imported

SetWoodAssignment ==
  \E key \in AssignmentKeys, thickness \in StoreThicknesses :
    LET updated == [store.config EXCEPT !.woodAssignments[key] = thickness]
    IN /\ Editable
       /\ Do(Op("setWoodAssignment", <<key, thickness>>),
             WithConfig(IF key = "drawerSides" \/ key = "drawerBottom"
              THEN RecomputeFromGridfinity(updated)
              ELSE updated))
       /\ UNCHANGED imported

SetDrawerWoodOverride ==
  \E c \in 1..MaxCols, r \in 1..MaxRows, override \in StoreOverrides :
    LET OnRow(row) == [row EXCEPT !.woodOverride = override]
    IN /\ Editable
       /\ Do(Op("setDrawerWoodOverride", <<c, r, override>>),
             WithConfig(WithRow(store.config, c, r,
                           OnRow(store.config.columns[c].rows[r]))))
       /\ UNCHANGED imported

SetSlideLength ==
  \E length \in {16 * Inch} :
    /\ Editable
    /\ Do(Op("setSlideLength", <<length>>),
          WithConfig([store.config EXCEPT !.slideSpec.length = length]))
    /\ UNCHANGED imported

SetSlideClearance ==
  \E clearance \in StoreClearances :
    /\ Editable
    /\ Do(Op("setSlideClearance", <<clearance>>),
          WithConfig(RecomputeFromGridfinity(
           [store.config EXCEPT !.slideSpec.clearancePerSide = clearance])))
    /\ UNCHANGED imported

SetHorizontalRailsEnabled ==
  \E enabled \in {TRUE} :
    /\ Editable
    /\ Do(Op("setHorizontalRailsEnabled", <<enabled>>),
          WithConfig([store.config EXCEPT !.horizontalRails.enabled = enabled]))
    /\ UNCHANGED imported

SetHorizontalRailThickness ==
  \E thickness \in StoreThicknesses :
    /\ Editable
    /\ Do(Op("setHorizontalRailThickness", <<thickness>>),
          WithConfig([store.config EXCEPT !.horizontalRails.thickness = thickness]))
    /\ UNCHANGED imported

SetHorizontalRailWidth ==
  \E width \in {2 * Inch} :
    /\ Editable
    /\ Do(Op("setHorizontalRailWidth", <<width>>),
          WithConfig([store.config EXCEPT !.horizontalRails.width = width]))
    /\ UNCHANGED imported

SaveConfig ==
  \E name \in ConfigNames :
    /\ Do(Op("saveConfig", <<name>>),
          [config |-> WithName(store.config, name),
           savedConfigs |->
             [store.savedConfigs EXCEPT
                ![name] = <<WithName(store.config, name)>>]])
    /\ UNCHANGED imported

LoadConfig ==
  \E name \in ConfigNames :
    LET saved == SavedLookup(store.savedConfigs, name)
    IN /\ Do(Op("loadConfig", <<name>>),
             IF saved # <<>> THEN WithConfig(saved[1]) ELSE store)
       /\ UNCHANGED imported

DeleteConfig ==
  \E name \in ConfigNames :
    /\ Do(Op("deleteConfig", <<name>>),
          [store EXCEPT !.savedConfigs[name] = <<>>])
    /\ UNCHANGED imported

ImportConfig ==
  \E parsed \in ImportedConfigs :
    /\ Do(Op("importConfig", <<parsed.name>>), WithConfig(parsed))
    /\ imported' = TRUE

ResetToDefaults ==
  /\ Do(Op("resetToDefaults", <<>>), WithConfig(CreateDefaultConfig))
  /\ UNCHANGED imported

StoreNext ==
  \/ SetUnit \/ SetConstraints \/ SetDrawerStyle \/ SetDefaultConstruction
  \/ SetKerfWidth \/ SetAdvancedWoodMode
  \/ SetColumnCount \/ SetColumnGridWidth \/ SetAllColumnGridWidths
  \/ SetRowCount \/ SetRowBinHeight \/ SetAllRowBinHeights
  \/ SetRowDirectHeight \/ ResetRowToGridfinity \/ SetRowConstruction
  \/ SetWoodAssignment \/ SetDrawerWoodOverride
  \/ SetSlideLength \/ SetSlideClearance
  \/ SetHorizontalRailsEnabled \/ SetHorizontalRailThickness
  \/ SetHorizontalRailWidth
  \/ SaveConfig \/ LoadConfig \/ DeleteConfig \/ ImportConfig
  \/ ResetToDefaults

StoreSpec == StoreInit /\ [][StoreNext]_vars

\* ----------------------------------------------------------- store claims
\* The rows of a configuration, as <<column, row>> positions.
RowsOf(config_) ==
  {cr \in (DOMAIN config_.columns) \X (1..(MaxRows + 3)) :
     cr[2] \in DOMAIN config_.columns[cr[1]].rows}

\* Every column has a row, and there is a column.
HasColumnsAndRows(config_) ==
  /\ IsConfig(config_)
  /\ Len(config_.columns) >= 1
  /\ \A c \in DOMAIN config_.columns : Len(config_.columns[c].rows) >= 1

\* list is exactly n long and begins with the first min(Len(old), n)
\* entries of old.
ResizedTo(list, old, n) ==
  /\ Len(list) = n
  /\ \A k \in 1..Min(Len(old), n) : list[k] = old[k]

\* C23: from the default configuration and without importConfig, the
\* configuration always has at least one column and every column at least
\* one row; setColumnCount(n) and setRowCount(c, n) leave the state
\* unchanged when n < 1 and otherwise leave exactly n columns (n rows in
\* column c) whose first min(old, n) entries are the old ones.
C23_AtLeastOneColumnAndRow ==
  ~imported =>
    /\ HasColumnsAndRows(store.config)
    /\ lastOp.op = "setColumnCount" =>
         IF lastOp.args[1] < 1 THEN store = before
         ELSE ResizedTo(store.config.columns, before.config.columns,
                        lastOp.args[1])
    /\ (lastOp.op = "setRowCount"
          /\ lastOp.args[1] \in DOMAIN before.config.columns) =>
         IF lastOp.args[2] < 1 THEN store = before
         ELSE ResizedTo(store.config.columns[lastOp.args[1]].rows,
                        before.config.columns[lastOp.args[1]].rows,
                        lastOp.args[2])

\* C24: loadConfig(n) of a saved name sets the configuration to the one
\* saved under n, named n; loadConfig of a name with no saved entry leaves
\* the state unchanged.
C24_SaveLoadRoundTrip ==
  lastOp.op = "loadConfig" =>
    LET n == lastOp.args[1]
    IN IF before.savedConfigs[n] # <<>>
         THEN /\ store.config = before.savedConfigs[n][1]
              /\ store.config.name = n
              /\ store.savedConfigs = before.savedConfigs
         ELSE store = before

\* C25: only saveConfig and deleteConfig change the saved configurations;
\* saveConfig(n) adds or replaces only the entry n and deleteConfig(n)
\* removes only the entry n.
C25_SavedConfigsFrame ==
  LET old == before.savedConfigs
      new == store.savedConfigs
  IN /\ lastOp.op \notin {"saveConfig", "deleteConfig"} => new = old
     /\ lastOp.op = "saveConfig" =>
          /\ new[lastOp.args[1]] = <<WithName(before.config, lastOp.args[1])>>
          /\ \A m \in ConfigNames \ {lastOp.args[1]} : new[m] = old[m]
     /\ lastOp.op = "deleteConfig" =>
          /\ new[lastOp.args[1]] = <<>>
          /\ \A m \in ConfigNames \ {lastOp.args[1]} : new[m] = old[m]

\* Configuration b is saved after configuration a: the entry a is still the
\* default configuration under its name.
C25_Witness ==
  /\ lastOp.op = "saveConfig"
  /\ lastOp.args[1] = "b"
  /\ store.savedConfigs["a"] = <<WithName(CreateDefaultConfig, "a")>>
  /\ store.savedConfigs["b"] # <<>>

\* The actions after which a direct row need not keep its height: a new
\* height or bin height for that row, a reset of the row, a change of unit
\* and a replacement of the whole configuration.
MayChangeDirectRow(op, c, r) ==
  \/ op.op \in {"setAllRowBinHeights", "setUnit", "loadConfig", "importConfig",
                "resetToDefaults"}
  \/ /\ op.op \in {"setRowDirectHeight", "setRowBinHeight",
                   "resetRowToGridfinity"}
     /\ op.args[1] = c
     /\ op.args[2] = r

\* C28: a direct row that an action leaves in place keeps its openingHeight
\* and stays direct, unless the action is one of MayChangeDirectRow; and a
\* direct row always has the height last given to setRowDirectHeight (in
\* the unit of the configuration).
C28_DirectHeightKept ==
  (IsConfig(store.config) /\ IsConfig(before.config)) =>
    /\ \A cr \in RowsOf(before.config) \cap RowsOf(store.config) :
         LET old == before.config.columns[cr[1]].rows[cr[2]]
             new == store.config.columns[cr[1]].rows[cr[2]]
         IN (IsDirect(old) /\ ~MayChangeDirectRow(lastOp, cr[1], cr[2])) =>
              /\ IsDirect(new)
              /\ new.openingHeight = old.openingHeight
    /\ \A cr \in RowsOf(store.config) :
         LET row == store.config.columns[cr[1]].rows[cr[2]]
         IN IsDirect(row) => row.openingHeight = row.directGiven[1]

\* usableInteriorWidth and usableInteriorHeight of calculateDrawerBox.
UsableInterior(row, column, config_) ==
  LET wood == GetDrawerWood(row, config_)
      params == BoxParams(row, column, config_)
  IN [width |-> params.boxOuterWidth - 2 * wood.sides.actual,
      height |->
        GetConstructionStrategy(row.construction, params).usableInteriorHeight]

\* C29: without importConfig, every drawer's usable interior width is at
\* least gridWidthUnits x 42 mm, and the usable interior height of every
\* row that is not direct is at least 7 x binHeightUnits + 4 mm.
C29_OpeningsFitModules ==
  (~imported /\ IsConfig(store.config)) =>
    \A cr \in RowsOf(store.config) :
      LET column == store.config.columns[cr[1]]
          row == column.rows[cr[2]]
          interior == UsableInterior(row, column, store.config)
      IN /\ ToMm(interior.width, store.config.unit)
              >= column.gridWidthUnits * GRID_UNIT_MM * MmScale
         /\ ~IsDirect(row) =>
              ToMm(interior.height, store.config.unit)
                >= GridfinityBinHeightMm(row.binHeightUnits) * MmScale

====
